---- MODULE Spec2Model ----
(***************************************************************************)
(* A model of the LiveATC feed collector (src/feeds.py): the merge of one  *)
(* run's records into a per-feed mapping (update_feed_data), the daily     *)
(* partition store and its index on S3 (save_to_s3, update_index_file),    *)
(* the aggregation over partitions (aggregate_feed_data) and the Lambda    *)
(* entry point (lambda_handler, process_urls).                             *)
(***************************************************************************)
EXTENDS Integers, Sequences, FiniteSets, TLC

(***************************************************************************)
(* Bounds of the model.                                                    *)
(***************************************************************************)
\* invocations of lambda_handler in one behaviour
MaxRuns == 2
\* the clock runs from 0 to MaxTime
MaxTime == 2
\* clock ticks in one UTC calendar day
TicksPerDay == 2
\* records returned by one process_urls call
MaxFeeds == 1
\* update_feed_data calls in one behaviour of SpecMerge
MaxCalls == 2
\* records in one update_feed_data call of SpecMerge
MaxBatch == 4
\* time series entries in the store before the last collection run of SpecAgg
MaxEntries == 2
\* elements (rows, stray marker cells) of the main table of a page
MaxRowsOnPage == 3
\* urls of process_urls in SpecPages (the code lists twelve)
MaxPages == 2

Procs == {1, 2}
FeedNames == {"KSEA Twr", "KBFI Gnd"}

Min(S) == CHOOSE x \in S : \A y \in S : x <= y
Max(S) == CHOOSE x \in S : \A y \in S : x >= y

SeqsUpTo(S, n) == UNION {[1..k -> S] : k \in 0..n}

(***************************************************************************)
(* Records: what extract_feed_data returns for one row. A row of a page is *)
(* a feed name with one of two contents; the timestamp is the clock at     *)
(* extraction.                                                             *)
(***************************************************************************)
AirportFeed(name, v, now) ==
    [ icao            |-> IF v = 1 THEN "ksea" ELSE "KBFI",
      location        |-> IF v = 1 THEN "Seattle" ELSE "SEA-TAC",
      status          |-> IF v = 1 THEN "UP" ELSE "DOWN",
      listeners       |-> IF v = 1 THEN 5 ELSE 8,
      total_listeners |-> IF v = 1 THEN 50 ELSE 80,
      channel_types   |-> IF v = 1 THEN <<"Tower">> ELSE <<"Ground">>,
      metar           |-> IF v = 1 THEN "" ELSE "KBFI 010000Z",
      frequencies     |-> IF v = 1 THEN "Tower: 118.3" ELSE "Ground: 121.9",
      timestamp       |-> now,
      feed_name       |-> name ]

\* the rows the pages may show: "KSEA Twr" with either content, "KBFI Gnd"
Rows == {<<"KSEA Twr", 1>>, <<"KSEA Twr", 2>>, <<"KBFI Gnd", 1>>}

FeedsOf(rows, now) == [i \in 1..Len(rows) |-> AirportFeed(rows[i][1], rows[i][2], now)]

\* str.upper() on the icao codes of the model
Upper(s) ==
    CASE s = "ksea" -> "KSEA"
      [] s = "KSEA" -> "KSEA"
      [] s = "kbfi" -> "KBFI"
      [] s = "KBFI" -> "KBFI"
      [] OTHER -> s

NamesIn(feeds) == {feeds[i].feed_name : i \in 1..Len(feeds)}

(***************************************************************************)
(* update_feed_data: a mapping is a function from the feed names it holds  *)
(* to [static_data, time_series].                                          *)
(***************************************************************************)
EmptyMapping == << >>

StaticData(feed) ==
    [ icao          |-> Upper(feed.icao),
      location      |-> feed.location,
      frequencies   |-> feed.frequencies,
      channel_types |-> feed.channel_types ]

TimeSeriesEntry(feed) ==
    [ timestamp       |-> feed.timestamp,
      status          |-> feed.status,
      listeners       |-> feed.listeners,
      total_listeners |-> feed.total_listeners,
      metar           |-> feed.metar ]

NeverProcessed(feed_name, processed_feed_names) == FALSE

\* the guard "if feed_name in processed_feed_names: continue"
AlreadyProcessed(feed_name, processed_feed_names) ==
    feed_name \in processed_feed_names

OverwriteSeries(data, feed) ==
    [n \in DOMAIN data \cup {feed.feed_name} |->
        IF n = feed.feed_name
        THEN [ static_data |-> StaticData(feed),
               time_series |-> IF n \in DOMAIN data THEN data[n].time_series ELSE << >> ]
        ELSE data[n]]

\* "if feed_name not in existing_data": the series is created on first sight
EnsureSeries(data, feed) ==
    IF feed.feed_name \in DOMAIN data
    THEN data
    ELSE [n \in DOMAIN data \cup {feed.feed_name} |->
            IF n = feed.feed_name
            THEN [static_data |-> StaticData(feed), time_series |-> << >>]
            ELSE data[n]]

PrependEntry(data, feed) ==
    [data EXCEPT ![feed.feed_name].time_series = <<TimeSeriesEntry(feed)>> \o @]

\* existing_data[feed_name]["time_series"].append({...})
AppendEntry(data, feed) ==
    [data EXCEPT ![feed.feed_name].time_series = Append(@, TimeSeriesEntry(feed))]

RECURSIVE UpdateLoop(_, _, _)
UpdateLoop(data, feeds, processed_feed_names) ==
    IF feeds = << >>
    THEN data
    ELSE LET feed == Head(feeds)
         IN  IF AlreadyProcessed(feed.feed_name, processed_feed_names)
             THEN UpdateLoop(data, Tail(feeds), processed_feed_names)
             ELSE UpdateLoop(AppendEntry(EnsureSeries(data, feed), feed),
                             Tail(feeds),
                             processed_feed_names \cup {feed.feed_name})

update_feed_data(existing_data, feeds) == UpdateLoop(existing_data, feeds, {})

(***************************************************************************)
(* The clock and the dates. datetime.now(timezone.utc) is the clock;       *)
(* strftime("%Y-%m-%d") formats its calendar day, strptime parses a date   *)
(* string back to a day. DateStrs lists the date strings in increasing     *)
(* order, the default start date of an aggregation first.                  *)
(***************************************************************************)
DateStrs == <<"2000-01-01", "2024-01-01", "2024-01-02", "2024-01-03", "2024-01-04">>

\* the calendar day (0, 1, ...) an instant falls on
DayOf(instant) == instant \div TicksPerDay

\* strftime("%Y-%m-%d") of a calendar day
FormatDate(day) == DateStrs[day + 2]

\* strptime(s, "%Y-%m-%d"), as the rank of the date
ParseDate(s) == CHOOSE i \in 1..Len(DateStrs) : DateStrs[i] = s

\* the order of two date strings (str comparison of zero-padded dates)
DateStrLeq(a, b) == ParseDate(a) <= ParseDate(b)

Days == 0..DayOf(MaxTime)

(***************************************************************************)
(* File names. f"{base_filename}_{current_date}.json" is kept as the       *)
(* sequence of its pieces, so that split('_')[-1].split('.')[0] is a       *)
(* computation on it.                                                      *)
(***************************************************************************)
PartitionName(current_date) == <<"liveatc", "_", "feeds", "_", current_date, ".", "json">>

PartitionFiles == {PartitionName(FormatDate(d)) : d \in Days}

\* s.split(sep)[-1]
LastPiece(s, sep) ==
    LET at == {i \in 1..Len(s) : s[i] = sep}
    IN  IF at = {} THEN s ELSE SubSeq(s, Max(at) + 1, Len(s))

\* s.split(sep)[0]
FirstPiece(s, sep) ==
    LET at == {i \in 1..Len(s) : s[i] = sep}
    IN  IF at = {} THEN s ELSE SubSeq(s, 1, Min(at) - 1)

\* date_str = new_filename.split('_')[-1].split('.')[0]
DateStrOf(new_filename) == FirstPiece(LastPiece(new_filename, "_"), ".")[1]

(***************************************************************************)
(* S3 objects: a key holds no object or a JSON document. A read returns    *)
(* the document ("ok"), fails in the get ("error": the key is missing, the *)
(* request fails) or returns a body json.loads rejects ("unparseable").    *)
(***************************************************************************)
Missing == [kind |-> "missing"]
JsonObject(data) == [kind |-> "json", data |-> data]

ReadOutcomes == {"ok", "error", "unparseable"}

RaisingLoad(object, how, empty) ==
    IF how = "ok" /\ object.kind = "json"
    THEN [ok |-> TRUE, raised |-> FALSE, data |-> object.data]
    ELSE [ok |-> FALSE, raised |-> TRUE, data |-> empty]

AppendingPut(objects, key, data) ==
    [objects EXCEPT ![key] =
        IF @.kind = "json"
        THEN JsonObject([n \in DOMAIN @.data \cup DOMAIN data |->
                 IF n \notin DOMAIN data THEN @.data[n]
                 ELSE IF n \notin DOMAIN @.data THEN data[n]
                 ELSE [@.data[n] EXCEPT !.time_series =
                          Append(@, data[n].time_series[Len(data[n].time_series)])]])
        ELSE JsonObject(data)]

\* s3.Object(bucket_name, key).put(Body=json.dumps(data)): the object of the
\* key is replaced as a whole
ReplaceObject(objects, key, data) == [objects EXCEPT ![key] = JsonObject(data)]

\* try: json.loads(s3.Object(...).get()['Body'].read()) except Exception: keep
\* the empty default
LoadOrEmpty(object, how, empty) ==
    IF how = "ok" /\ object.kind = "json"
    THEN [ok |-> TRUE, raised |-> FALSE, data |-> object.data]
    ELSE [ok |-> FALSE, raised |-> FALSE, data |-> empty]

(***************************************************************************)
(* update_index_file: the computation between the read and the put.        *)
(***************************************************************************)
Descriptor(new_filename, now) ==
    [ filename      |-> new_filename,
      date          |-> DateStrOf(new_filename),
      created       |-> now,
      last_modified |-> now ]

\* the for/else loop: bump last_modified of the first descriptor with this
\* filename, or append a new descriptor
TouchOrAppend(partitions, new_filename, now) ==
    LET at == {i \in 1..Len(partitions) : partitions[i].filename = new_filename}
    IN  IF at # {}
        THEN [partitions EXCEPT ![Min(at)].last_modified = now]
        ELSE Append(partitions, Descriptor(new_filename, now))

\* x goes behind every element whose date is not older than its own
InsertByDateDesc(sorted, x) ==
    LET keep == {i \in 1..Len(sorted) : DateStrLeq(x.date, sorted[i].date)}
        k    == IF keep = {} THEN 0 ELSE Max(keep)
    IN  SubSeq(sorted, 1, k) \o <<x>> \o SubSeq(sorted, k + 1, Len(sorted))

RECURSIVE SortLoop(_, _)
SortLoop(sorted, rest) ==
    IF rest = << >> THEN sorted
    ELSE SortLoop(InsertByDateDesc(sorted, Head(rest)), Tail(rest))

Unsorted(partitions) == partitions

\* sorted(partitions, key=lambda x: x["date"], reverse=True): stable
SortByDateDesc(partitions) == SortLoop(<< >>, partitions)

UpdatedIndex(partitions, new_filename, now) ==
    SortByDateDesc(TouchOrAppend(partitions, new_filename, now))

(***************************************************************************)
(* aggregate_feed_data.                                                    *)
(***************************************************************************)
DefaultStartDate == "2000-01-01"

ExclusiveEnd(partitions, start_date, end_date) ==
    LET in_range(d) == /\ ParseDate(start_date) <= ParseDate(d.date)
                       /\ ParseDate(d.date) < ParseDate(end_date)
        chosen == SelectSeq(partitions, in_range)
    IN  [i \in 1..Len(chosen) |-> chosen[i].filename]

\* the filenames of the descriptors whose date lies in [start, end], in
\* index order
RelevantPartitions(partitions, start_date, end_date) ==
    LET in_range(d) == /\ ParseDate(start_date) <= ParseDate(d.date)
                       /\ ParseDate(d.date) <= ParseDate(end_date)
        chosen == SelectSeq(partitions, in_range)
    IN  [i \in 1..Len(chosen) |-> chosen[i].filename]

\* "if feed_names and feed_name not in feed_names: continue"
Selected(partition_data, feed_names) ==
    IF feed_names = {} THEN DOMAIN partition_data
    ELSE DOMAIN partition_data \cap feed_names

FirstSightingOnly(aggregated_data, partition_data, feed_names) ==
    LET sel == Selected(partition_data, feed_names)
    IN  [n \in DOMAIN aggregated_data \cup sel |->
            IF n \in DOMAIN aggregated_data THEN aggregated_data[n]
            ELSE [ static_data |-> partition_data[n].static_data,
                   time_series |-> partition_data[n].time_series ]]

LaterStaticData(aggregated_data, partition_data, feed_names) ==
    LET sel == Selected(partition_data, feed_names)
    IN  [n \in DOMAIN aggregated_data \cup sel |->
            IF n \notin sel THEN aggregated_data[n]
            ELSE [ static_data |-> partition_data[n].static_data,
                   time_series |-> (IF n \in DOMAIN aggregated_data
                                    THEN aggregated_data[n].time_series ELSE << >>)
                                       \o partition_data[n].time_series ]]

\* the loop over partition_data.items(): a first sighting copies the feed,
\* a later one extends its time_series
MergePartition(aggregated_data, partition_data, feed_names) ==
    LET sel == Selected(partition_data, feed_names)
    IN  [n \in DOMAIN aggregated_data \cup sel |->
            IF n \notin sel THEN aggregated_data[n]
            ELSE IF n \notin DOMAIN aggregated_data
                 THEN [ static_data |-> partition_data[n].static_data,
                        time_series |-> partition_data[n].time_series ]
                 ELSE [ static_data |-> aggregated_data[n].static_data,
                        time_series |-> aggregated_data[n].time_series
                                            \o partition_data[n].time_series ]]

RECURSIVE StopAtUnreadable(_, _, _, _, _)
StopAtUnreadable(aggregated_data, filenames, objects, unreadable, feed_names) ==
    IF filenames = << >> THEN aggregated_data
    ELSE IF Head(filenames) \in unreadable \/ objects[Head(filenames)].kind # "json"
         THEN aggregated_data
         ELSE StopAtUnreadable(
                  MergePartition(aggregated_data, objects[Head(filenames)].data, feed_names),
                  Tail(filenames), objects, unreadable, feed_names)

RECURSIVE AggregateLoop(_, _, _, _, _)
AggregateLoop(aggregated_data, filenames, bucket, unreadable, feed_names) ==
    IF filenames = << >> THEN aggregated_data
    ELSE LET filename == Head(filenames)
             part == LoadOrEmpty(bucket[filename],
                                 IF filename \in unreadable THEN "error" ELSE "ok",
                                 EmptyMapping)
         IN  AggregateLoop(
                 IF part.ok
                 THEN MergePartition(aggregated_data, part.data, feed_names)
                 ELSE aggregated_data,
                 Tail(filenames), bucket, unreadable, feed_names)

(***************************************************************************)
(* The merge loop of aggregate_feed_data feed by feed. partition_data is   *)
(* whatever json.loads returned: its items come in the order of the JSON   *)
(* object, and a feed entry may lack "static_data" or "time_series".       *)
(* aggregated_data is changed in place, one feed at a time, inside the try *)
(* of the partition; the except leaves it as the loop left it.             *)
(***************************************************************************)
\* partitions one aggregation request of SpecPartial selects
MaxSelected == 2

\* the feed entries a partition of SpecPartial may hold for feed_name: the
\* entry update_feed_data writes, and that entry without one of its keys
WrittenEntry(feed_name, k) ==
    LET feed == AirportFeed(feed_name, k, k)
    IN  [static_data |-> StaticData(feed), time_series |-> <<TimeSeriesEntry(feed)>>]

FeedEntries(feed_name, k) ==
    { WrittenEntry(feed_name, k),
      [static_data |-> WrittenEntry(feed_name, k).static_data],
      [time_series |-> WrittenEntry(feed_name, k).time_series] }

\* partition_data.items() of the k-th selected partition: <<feed_name, feed_data>>
\* pairs, a feed_name at most once
PartitionItems(k) ==
    LET Item == UNION {{<<n, e>> : e \in FeedEntries(n, k)} : n \in FeedNames}
    IN  {items \in SeqsUpTo(Item, Cardinality(FeedNames)) :
            \A i, j \in 1..Len(items) : i # j => items[i][1] # items[j][1]}

\* one turn of "for feed_name, feed_data in partition_data.items()": raised
\* tells that feed_data["static_data"] or feed_data["time_series"] was a
\* KeyError, which happens before aggregated_data is assigned or extended
MergeFeed(aggregated_data, feed_name, feed_data, feed_names) ==
    IF feed_names # {} /\ feed_name \notin feed_names
    THEN [raised |-> FALSE, data |-> aggregated_data]
    ELSE IF feed_name \notin DOMAIN aggregated_data
         THEN IF "static_data" \in DOMAIN feed_data /\ "time_series" \in DOMAIN feed_data
              THEN [ raised |-> FALSE,
                     data |-> [n \in DOMAIN aggregated_data \cup {feed_name} |->
                                 IF n = feed_name
                                 THEN [ static_data |-> feed_data.static_data,
                                        time_series |-> feed_data.time_series ]
                                 ELSE aggregated_data[n]] ]
              ELSE [raised |-> TRUE, data |-> aggregated_data]
         ELSE IF "time_series" \in DOMAIN feed_data
              THEN [ raised |-> FALSE,
                     data |-> [aggregated_data EXCEPT ![feed_name].time_series =
                                                         @ \o feed_data.time_series] ]
              ELSE [raised |-> TRUE, data |-> aggregated_data]

\* the loop over the items of one partition, left at the first KeyError
RECURSIVE MergeItems(_, _, _)
MergeItems(aggregated_data, items, feed_names) ==
    IF items = << >>
    THEN [raised |-> FALSE, data |-> aggregated_data]
    ELSE LET turn == MergeFeed(aggregated_data, Head(items)[1], Head(items)[2], feed_names)
         IN  IF turn.raised
             THEN turn
             ELSE MergeItems(turn.data, Tail(items), feed_names)

WholePartitionOrNothing(before, merge) == IF merge.raised THEN before ELSE merge.data

\* "except Exception as e: print(...)": aggregated_data stays as the loop
\* over the items left it
AsLeftByLoop(before, merge) == merge.data

\* the loop over relevant_partitions, every partition read and parsed
RECURSIVE MergeLoaded(_, _, _)
MergeLoaded(aggregated_data, partitions, feed_names) ==
    IF partitions = << >>
    THEN aggregated_data
    ELSE MergeLoaded(
             AsLeftByLoop(aggregated_data,
                          MergeItems(aggregated_data, Head(partitions), feed_names)),
             Tail(partitions), feed_names)

\* x goes behind every entry whose timestamp is not later than its own
InsertByTimestamp(sorted, x) ==
    LET keep == {i \in 1..Len(sorted) : sorted[i].timestamp <= x.timestamp}
        k    == IF keep = {} THEN 0 ELSE Max(keep)
    IN  SubSeq(sorted, 1, k) \o <<x>> \o SubSeq(sorted, k + 1, Len(sorted))

RECURSIVE TimeSortLoop(_, _)
TimeSortLoop(sorted, rest) ==
    IF rest = << >> THEN sorted
    ELSE TimeSortLoop(InsertByTimestamp(sorted, Head(rest)), Tail(rest))

AsConcatenated(time_series) == time_series

\* sorted(time_series, key=lambda x: x["timestamp"]): stable
SortByTimestamp(time_series) == TimeSortLoop(<< >>, time_series)

SortAll(aggregated_data) ==
    [n \in DOMAIN aggregated_data |->
        [aggregated_data[n] EXCEPT !.time_series = SortByTimestamp(@)]]

\* the body of aggregate_feed_data after the index has been read
aggregate_feed_data(index_load, bucket, unreadable, start_date, end_date, feed_names, today) ==
    LET end   == IF end_date = "" THEN FormatDate(today) ELSE end_date
        start == IF start_date = "" THEN DefaultStartDate ELSE start_date
    IN  IF ~index_load.ok
        THEN EmptyMapping
        ELSE SortAll(AggregateLoop(EmptyMapping,
                                   RelevantPartitions(index_load.data, start, end),
                                   bucket, unreadable, feed_names))

(***************************************************************************)
(* Text. A str is the sequence of its characters, so that the regular      *)
(* expressions and the substring tests of extract_feed_data are            *)
(* computations on it.                                                     *)
(***************************************************************************)
UpperChars == {"A", "B", "C", "D", "E", "F", "G", "H", "I", "J", "K", "L", "M",
               "N", "O", "P", "Q", "R", "S", "T", "U", "V", "W", "X", "Y", "Z"}
LowerChars == {"a", "b", "c", "d", "e", "f", "g", "h", "i", "j", "k", "l", "m",
               "n", "o", "p", "q", "r", "s", "t", "u", "v", "w", "x", "y", "z"}
DigitChars == {"0", "1", "2", "3", "4", "5", "6", "7", "8", "9"}
SpaceChars == {" ", "\t", "\n"}

\* [A-Z], \d, \s, \w
IsUpper(c) == c \in UpperChars
IsDigit(c) == c \in DigitChars
IsSpace(c) == c \in SpaceChars
IsWord(c) == c \in UpperChars \cup LowerChars \cup DigitChars \cup {"_"}

\* the text reads `pat` from position i on
At(s, i, pat) ==
    /\ i >= 1
    /\ i + Len(pat) - 1 <= Len(s)
    /\ SubSeq(s, i, i + Len(pat) - 1) = pat

\* pat in s
Contains(s, pat) == \E i \in 1..(Len(s) + 1) : At(s, i, pat)

\* s.startswith(pat), s.endswith(pat)
StartsWith(s, pat) == At(s, 1, pat)
EndsWith(s, pat) == At(s, Len(s) - Len(pat) + 1, pat)

\* the character classes of the regular expressions: \s, \d, \w,
\* [\w\d\s/], [^<] and [^A]
InClass(class, c) ==
    CASE class = "space"   -> IsSpace(c)
      [] class = "digit"   -> IsDigit(c)
      [] class = "word"    -> IsWord(c)
      [] class = "general" -> IsWord(c) \/ IsSpace(c) \/ c = "/"
      [] class = "not <"   -> c # "<"
      [] class = "not A"   -> c # "A"

\* the first position from i on whose character is not of the class, or
\* Len(s) + 1
RunEnd(s, i, class) ==
    LET out == {k \in i..Len(s) : ~InClass(class, s[k])}
    IN  IF out = {} THEN Len(s) + 1 ELSE Min(out)

\* s.strip()
Strip(s) ==
    LET ink == {k \in 1..Len(s) : ~IsSpace(s[k])}
    IN  IF ink = {} THEN << >> ELSE SubSeq(s, Min(ink), Max(ink))

\* str.lower() of one character
LowerChar(c) ==
    CASE c = "A" -> "a" [] c = "B" -> "b" [] c = "C" -> "c" [] c = "D" -> "d"
      [] c = "E" -> "e" [] c = "F" -> "f" [] c = "G" -> "g" [] c = "H" -> "h"
      [] c = "I" -> "i" [] c = "J" -> "j" [] c = "K" -> "k" [] c = "L" -> "l"
      [] c = "M" -> "m" [] c = "N" -> "n" [] c = "O" -> "o" [] c = "P" -> "p"
      [] c = "Q" -> "q" [] c = "R" -> "r" [] c = "S" -> "s" [] c = "T" -> "t"
      [] c = "U" -> "u" [] c = "V" -> "v" [] c = "W" -> "w" [] c = "X" -> "x"
      [] c = "Y" -> "y" [] c = "Z" -> "z" [] OTHER -> c

\* s.lower()
Lower(s) == [i \in 1..Len(s) |-> LowerChar(s[i])]

(***************************************************************************)
(* extract_feed_data: the METAR of a row, from str(status_span).           *)
(***************************************************************************)
NoMatch == [found |-> FALSE, group |-> << >>]
Match(text) == [found |-> TRUE, group |-> text]

BrTag == <<"<", "b", "r", " ", "/", ">">>
AltLead == <<"U", "T", "C", "<", "/", "f", "o", "n", "t", ">", "<", "b", "r", ">", "<", "b", "r", " ", "/", ">">>
AirportInfo == <<"A", "i", "r", "p", "o", "r", "t", " ", "I", "n", "f", "o">>
FlightActivity == <<"F", "l", "i", "g", "h", "t", " ", "A", "c", "t", "i", "v", "i", "t", "y">>

\* [A-Z]{4}\s\d{6}Z from position i on
MetarHeadAt(s, i) ==
    /\ i >= 1
    /\ i + 11 <= Len(s)
    /\ \A k \in 0..3 : IsUpper(s[i + k])
    /\ IsSpace(s[i + 4])
    /\ \A k \in 5..10 : IsDigit(s[i + k])
    /\ s[i + 11] = "Z"

\* where .+?(?=<br />|$) may end after a head that ends before p: at least one
\* character, none of them a newline, then <br /> or the end of the text (or
\* its last newline)
LazyEnds(s, p) ==
    {e \in (p + 1)..(Len(s) + 1) :
        /\ \A k \in p..(e - 1) : s[k] # "\n"
        /\ \/ At(s, e, BrTag)
           \/ e = Len(s) + 1
           \/ (e = Len(s) /\ s[e] = "\n")}

\* re.compile(lead + r'((?:[A-Z]{4}\s\d{6}Z.+?)(?=<br />|$))').search(s)
SearchAfter(s, lead) ==
    LET starts == {i \in 1..Len(s) :
                      /\ At(s, i, lead)
                      /\ MetarHeadAt(s, i + Len(lead))
                      /\ LazyEnds(s, i + Len(lead) + 12) # {}}
    IN  IF starts = {} THEN NoMatch
        ELSE LET g == Min(starts) + Len(lead)
             IN  Match(SubSeq(s, g, Min(LazyEnds(s, g + 12)) - 1))

\* metar_pattern and alt_pattern
StrictPattern(s) == SearchAfter(s, BrTag)
AltPattern(s) == SearchAfter(s, AltLead)

\* where the Q of \s+Q\d{4} may stand after a head that ends before a: behind
\* \s+[\w\d\s/]+\s+, inside the run of [\w\d\s/] that starts at a
PressureAt(s, a) ==
    {d \in (a + 3)..(RunEnd(s, a, "general") - 5) :
        /\ IsSpace(s[a])
        /\ IsSpace(s[d - 1])
        /\ s[d] = "Q"
        /\ \A k \in 1..4 : IsDigit(s[d + k])}

\* the end of (?:\s+\w+)? from position t on: greedy, or nothing
OptionalWordEnd(s, t) ==
    LET w == RunEnd(s, t, "space")
    IN  IF w > t /\ w <= Len(s) /\ IsWord(s[w]) THEN RunEnd(s, w, "word") ELSE t

\* general_pattern:
\* ([A-Z]{4}\s\d{6}Z\s+[\w\d\s/]+\s+Q\d{4}(?:\s+\w+)?), greedy
GeneralPattern(s) ==
    LET starts == {i \in 1..Len(s) : MetarHeadAt(s, i) /\ PressureAt(s, i + 12) # {}}
    IN  IF starts = {} THEN NoMatch
        ELSE LET i == Min(starts)
                 d == Max(PressureAt(s, i + 12))
             IN  Match(SubSeq(s, i, OptionalWordEnd(s, d + 5) - 1))

\* basic_pattern: ([A-Z]{4}\s\d{6}Z\s+[^<]+)
BasicPattern(s) ==
    LET starts == {i \in 1..Len(s) :
                      /\ MetarHeadAt(s, i)
                      /\ i + 13 <= Len(s)
                      /\ IsSpace(s[i + 12])
                      /\ s[i + 13] # "<"}
    IN  IF starts = {} THEN NoMatch
        ELSE LET i == Min(starts)
             IN  Match(SubSeq(s, i, RunEnd(s, i + 13, "not <") - 1))

\* the cascade of lines 118-144: the first pattern that gives a text
Candidate(s) ==
    LET strict == StrictPattern(s)
        alt == AltPattern(s)
        first == IF strict.found THEN Strip(strict.group)
                 ELSE IF alt.found THEN Strip(alt.group) ELSE << >>
        general == GeneralPattern(s)
        second == IF first # << >> THEN first
                  ELSE IF general.found THEN Strip(general.group) ELSE << >>
        basic == BasicPattern(s)
    IN  IF second # << >> THEN second
        ELSE IF basic.found THEN Strip(basic.group) ELSE << >>

\* re.sub(r'<[^>]+>', '', text)
RECURSIVE RemoveTags(_)
RemoveTags(text) ==
    IF text = << >> THEN << >>
    ELSE LET close == {j \in 2..Len(text) : text[j] = ">"}
         IN  IF text[1] = "<" /\ close # {} /\ Min(close) >= 3
             THEN RemoveTags(SubSeq(text, Min(close) + 1, Len(text)))
             ELSE <<text[1]>> \o RemoveTags(Tail(text))

KeepSpace(text) == text

\* re.sub(r'\s+', ' ', text)
RECURSIVE CollapseSpace(_)
CollapseSpace(text) ==
    IF text = << >> THEN << >>
    ELSE IF IsSpace(text[1])
         THEN <<" ">> \o CollapseSpace(SubSeq(text, RunEnd(text, 1, "space"), Len(text)))
         ELSE <<text[1]>> \o CollapseSpace(Tail(text))

\* "if not re.match(r'^[A-Z]{4}\s\d{6}Z', metar_text): metar_text = ''"
Validated(text) == IF MetarHeadAt(text, 1) THEN text ELSE << >>

\* re.match(r'^([A-Z]{4}\s\d{6}Z[^A]*)(?:Airport Info|Flight Activity)', text):
\* the text before the section label, or nothing
BeforeLabel(text) ==
    LET cuts == {k \in 13..RunEnd(text, 13, "not A") :
                    At(text, k, AirportInfo) \/ At(text, k, FlightActivity)}
    IN  IF MetarHeadAt(text, 1) /\ cuts # {}
        THEN Strip(SubSeq(text, 1, Max(cuts) - 1))
        ELSE << >>

\* lines 147-164: clean up, validate, cut at a section label
Cleaned(text) ==
    IF text = << >> THEN << >>
    ELSE LET valid == Validated(Strip(CollapseSpace(RemoveTags(text))))
         IN  IF Contains(valid, AirportInfo) \/ Contains(valid, FlightActivity)
             THEN BeforeLabel(valid)
             ELSE valid

\* metar_text of a row whose status span prints as s
MetarOf(s) == Cleaned(Candidate(s))

(***************************************************************************)
(* extract_feed_data: the channel types of a row, from the text of its     *)
(* strong tag and from its frequencies text.                               *)
(***************************************************************************)
\* row.find('strong'): << >> when there is none, else <<its text>>
NoStrong == << >>
Strong(text) == <<text>>

\* the abbreviations looked for in title_text, in the order of the ifs
TitleMarks ==
    << [channel_type |-> "Tower",     marks |-> {<<"T", "w", "r">>}],
       [channel_type |-> "Approach",  marks |-> {<<"A", "p", "p">>}],
       [channel_type |-> "Departure", marks |-> {<<"D", "e", "p">>}],
       [channel_type |-> "Ground",    marks |-> {<<"G", "n", "d">>}],
       [channel_type |-> "Center",    marks |-> {<<"C", "t", "r">>, <<"C", "e", "n", "t", "e", "r">>}],
       [channel_type |-> "ATIS",      marks |-> {<<"A", "T", "I", "S">>}] >>

TypesOf(mappings) == [i \in 1..Len(mappings) |-> mappings[i].channel_type]

\* the channel types the title gives
TitleChannelTypes(strong_tag) ==
    IF strong_tag = NoStrong THEN << >>
    ELSE LET title_text == strong_tag[1]
             Marked(m) == \E mark \in m.marks : Contains(title_text, mark)
         IN  TypesOf(SelectSeq(TitleMarks, Marked))

channel_type_mappings ==
    << [channel_type |-> "Tower",          keywords |-> <<<<"T", "o", "w", "e", "r">>, <<"T", "w", "r">>, <<"T", "W", "R">>>>],
       [channel_type |-> "Approach",       keywords |-> <<<<"A", "p", "p", "r", "o", "a", "c", "h">>, <<"A", "p", "p">>, <<"A", "P", "P">>, <<"A", "r", "r", "i", "v", "a", "l">>, <<"A", "R", "R">>>>],
       [channel_type |-> "Departure",      keywords |-> <<<<"D", "e", "p", "a", "r", "t", "u", "r", "e">>, <<"D", "e", "p">>, <<"D", "E", "P">>>>],
       [channel_type |-> "Ground",         keywords |-> <<<<"G", "r", "o", "u", "n", "d">>, <<"G", "n", "d">>, <<"G", "N", "D">>>>],
       [channel_type |-> "Center",         keywords |-> <<<<"C", "e", "n", "t", "e", "r">>, <<"C", "e", "n", "t", "r", "e">>, <<"C", "t", "r">>, <<"C", "T", "R">>, <<"C", "o", "n", "t", "r", "o", "l">>, <<"C", "T", "R", "L">>>>],
       [channel_type |-> "ATIS",           keywords |-> <<<<"A", "T", "I", "S">>, <<"I", "n", "f", "o", "r", "m", "a", "t", "i", "o", "n">>, <<"I", "n", "f", "o">>, <<"I", "N", "F", "O">>>>],
       [channel_type |-> "Clearance",      keywords |-> <<<<"C", "l", "e", "a", "r", "a", "n", "c", "e">>, <<"C", "l", "n", "c">>, <<"C", "L", "N", "C">>, <<"D", "e", "l", "i", "v", "e", "r", "y">>, <<"D", "e", "l">>, <<"D", "E", "L">>>>],
       [channel_type |-> "Ramp",           keywords |-> <<<<"R", "a", "m", "p">>, <<"A", "p", "r", "o", "n">>, <<"A", "P", "N">>>>],
       [channel_type |-> "Operations",     keywords |-> <<<<"O", "p", "e", "r", "a", "t", "i", "o", "n", "s">>, <<"O", "p", "s">>, <<"O", "P", "S">>>>],
       [channel_type |-> "Radio",          keywords |-> <<<<"R", "a", "d", "i", "o">>, <<"U", "n", "i", "c", "o", "m">>, <<"U", "N", "I", "C", "O", "M">>>>],
       [channel_type |-> "Director",       keywords |-> <<<<"D", "i", "r", "e", "c", "t", "o", "r">>, <<"D", "i", "r">>, <<"D", "I", "R">>>>],
       [channel_type |-> "Radar",          keywords |-> <<<<"R", "a", "d", "a", "r">>, <<"R", "A", "D">>>>],
       [channel_type |-> "Terminal",       keywords |-> <<<<"T", "e", "r", "m", "i", "n", "a", "l">>, <<"T", "M", "A">>>>],
       [channel_type |-> "Area",           keywords |-> <<<<"A", "r", "e", "a">>, <<"A", "C", "C">>>>],
       [channel_type |-> "Flight Service", keywords |-> <<<<"F", "l", "i", "g", "h", "t", " ", "S", "e", "r", "v", "i", "c", "e">>, <<"F", "S", "S">>>>],
       [channel_type |-> "Surface",        keywords |-> <<<<"S", "u", "r", "f", "a", "c", "e">>, <<"S", "M", "C">>>>],
       [channel_type |-> "Pre-Departure",  keywords |-> <<<<"P", "r", "e", "-", "D", "e", "p", "a", "r", "t", "u", "r", "e">>, <<"P", "D", "C">>>>],
       [channel_type |-> "Final",          keywords |-> <<<<"F", "i", "n", "a", "l">>, <<"F", "I", "N">>>>],
       [channel_type |-> "Emergency",      keywords |-> <<<<"E", "m", "e", "r", "g", "e", "n", "c", "y">>, <<"E", "M", "E", "R", "G">>>>] >>

\* the seven conditions under which a keyword counts as found
KeywordFound(frequencies_lower, keyword_lower) ==
    \/ Contains(<<" ">> \o frequencies_lower \o <<" ">>, <<" ">> \o keyword_lower \o <<" ">>)
    \/ Contains(frequencies_lower, <<" ">> \o keyword_lower \o <<":", " ">>)
    \/ Contains(frequencies_lower, <<":">> \o keyword_lower \o <<" ">>)
    \/ StartsWith(frequencies_lower, keyword_lower \o <<" ">>)
    \/ EndsWith(frequencies_lower, <<" ">> \o keyword_lower)
    \/ Contains(frequencies_lower, <<" ">> \o keyword_lower \o <<"/">>)
    \/ Contains(frequencies_lower, <<"/">> \o keyword_lower \o <<" ">>)

InSeq(x, s) == \E i \in 1..Len(s) : s[i] = x

\* the loop over channel_type_mappings from its i-th item on
RECURSIVE FromFrequencies(_, _, _)
FromFrequencies(types, frequencies_lower, i) ==
    IF i > Len(channel_type_mappings) THEN types
    ELSE LET mapping == channel_type_mappings[i]
             found == \E k \in 1..Len(mapping.keywords) :
                          KeywordFound(frequencies_lower, Lower(mapping.keywords[k]))
         IN FromFrequencies(
                IF found /\ ~InSeq(mapping.channel_type, types)
                THEN Append(types, mapping.channel_type) ELSE types,
                frequencies_lower, i + 1)

\* channel_types of a row with this strong text and this frequencies text
ChannelTypesOf(strong_tag, freq_text) ==
    IF freq_text = << >> THEN TitleChannelTypes(strong_tag)
    ELSE FromFrequencies(TitleChannelTypes(strong_tag), Lower(freq_text), 1)

(***************************************************************************)
(* extract_feed_data: the rows of a page. The page is what BeautifulSoup   *)
(* finds in it: whether the main table is there and, in document order,    *)
(* the elements of the table that are a tr or a marker cell outside any    *)
(* tr. An element carries the answers of the queries the code makes on it. *)
(***************************************************************************)
None == << >>
Some(x) == <<x>>

\* cell.find_parent('tr') of a marker cell outside any tr
NoRow == 0

\* feed_rows: per marker cell in document order, the position of its tr
RECURSIVE FeedRowsFrom(_, _)
FeedRowsFrom(elements, i) ==
    IF i > Len(elements) THEN << >>
    ELSE LET parent == IF elements[i].tag = "tr" THEN i ELSE NoRow
         IN  [c \in 1..elements[i].feed_cells |-> parent]
                 \o FeedRowsFrom(elements, i + 1)

feed_rows(elements) == FeedRowsFrom(elements, 1)

\* int() of a string of digits
DigitValue(c) ==
    CASE c = "0" -> 0 [] c = "1" -> 1 [] c = "2" -> 2 [] c = "3" -> 3 [] c = "4" -> 4
      [] c = "5" -> 5 [] c = "6" -> 6 [] c = "7" -> 7 [] c = "8" -> 8 [] c = "9" -> 9

RECURSIVE ParseInt(_)
ParseInt(digits) ==
    IF digits = << >> THEN 0
    ELSE 10 * ParseInt(SubSeq(digits, 1, Len(digits) - 1)) + DigitValue(digits[Len(digits)])

\* r'Listeners:\s*(\d+)\s*out of\s*(\d+)' matched from position i
ListenersAt(text, i) ==
    LET label == <<"L", "i", "s", "t", "e", "n", "e", "r", "s", ":">>
        outof == <<"o", "u", "t", " ", "o", "f">>
        d1    == RunEnd(text, i + Len(label), "space")
        e1    == RunEnd(text, d1, "digit")
        o     == RunEnd(text, e1, "space")
        d2    == RunEnd(text, o + Len(outof), "space")
        e2    == RunEnd(text, d2, "digit")
    IN  IF At(text, i, label) /\ e1 > d1 /\ At(text, o, outof) /\ e2 > d2
        THEN Some([listeners |-> ParseInt(SubSeq(text, d1, e1 - 1)),
                   total_listeners |-> ParseInt(SubSeq(text, d2, e2 - 1))])
        ELSE None

\* listeners_pattern.search(font.text)
ListenersSearch(text) ==
    LET hits == {i \in 1..Len(text) : ListenersAt(text, i) # None}
    IN  IF hits = {} THEN None ELSE ListenersAt(text, Min(hits))

IsSectionLabel(text) == Contains(text, AirportInfo) \/ Contains(text, FlightActivity)

\* the loop over listener_fonts
RECURSIVE ListenersOf(_)
ListenersOf(listener_fonts) ==
    IF listener_fonts = << >> THEN [listeners |-> 0, total_listeners |-> 0]
    ELSE LET text == Head(listener_fonts)
         IN  IF ~IsSectionLabel(text) /\ Contains(text, <<"L", "i", "s", "t", "e", "n", "e", "r", "s", ":">>)
                   /\ ListenersSearch(text) # None
             THEN ListenersSearch(text)[1]
             ELSE ListenersOf(Tail(listener_fonts))

\* the loop over the tds with valign="top" that hold purSep fonts: the text
\* of the first one that is no section label, or ""
RECURSIVE FirstFrequencies(_)
FirstFrequencies(freq_fonts) ==
    IF freq_fonts = << >> THEN << >>
    ELSE IF ~IsSectionLabel(Head(freq_fonts)) THEN Head(freq_fonts)
    ELSE FirstFrequencies(Tail(freq_fonts))

\* row.find_next('tr')
NextRow(elements, r) ==
    LET later == {i \in (r + 1)..Len(elements) : elements[i].tag = "tr"}
    IN  IF later = {} THEN None ELSE Some(elements[Min(later)])

FrequenciesOf(elements, r) ==
    LET row   == elements[r]
        here  == IF row.tds > 1 THEN FirstFrequencies(row.freq_fonts) ELSE << >>
        next_row == NextRow(elements, r)
    IN  IF here # << >> THEN here
        ELSE IF next_row # None THEN FirstFrequencies(next_row[1].freq_fonts)
        ELSE << >>

LocationOf(row) ==
    IF row.nav_fonts # << >> THEN Strip(row.nav_fonts[1]) ELSE <<"U", "n", "k", "n", "o", "w", "n">>

StatusOf(row) ==
    IF row.status_span # None /\ row.status_span[1].status_font # None
    THEN Strip(row.status_span[1].status_font[1])
    ELSE <<"U", "n", "k", "n", "o", "w", "n">>

FeedNameOf(row) ==
    IF row.strong_tag # None /\ row.strong_tag[1].a # None
        THEN Strip(row.strong_tag[1].a[1])
    ELSE IF row.strong_tag # None /\ Strip(row.strong_tag[1].text) # <<"D", "O", "W", "N">>
        THEN Strip(row.strong_tag[1].text)
    ELSE IF row.nav_fonts # << >>
        THEN Strip(row.nav_fonts[1])
    ELSE LocationOf(row) \o <<" ", "(">> \o row.icao_element[1] \o <<")">>

\* the AirportFeed built from a row that has its anchor
FeedOfRow(elements, r, now) ==
    LET row    == elements[r]
        strong == IF row.strong_tag = None THEN NoStrong ELSE Strong(row.strong_tag[1].text)
        frequencies_of_row == FrequenciesOf(elements, r)
    IN  [ icao            |-> row.icao_element[1],
          location        |-> LocationOf(row),
          status          |-> StatusOf(row),
          listeners       |-> ListenersOf(row.listener_fonts).listeners,
          total_listeners |-> ListenersOf(row.listener_fonts).total_listeners,
          channel_types   |-> ChannelTypesOf(strong, frequencies_of_row),
          metar           |-> IF row.status_span = None THEN << >>
                              ELSE MetarOf(row.status_span[1].str),
          frequencies     |-> frequencies_of_row,
          timestamp       |-> now,
          feed_name       |-> FeedNameOf(row) ]

\* the body of the try for one item of feed_rows: an exception (row is
\* None: row.find raises AttributeError), nothing (no anchor: continue), or
\* one feed
ProcessRow(elements, r, now) ==
    IF r = NoRow THEN [raised |-> TRUE, feeds |-> << >>]
    ELSE IF elements[r].icao_element = None THEN [raised |-> FALSE, feeds |-> << >>]
    ELSE [raised |-> FALSE, feeds |-> <<FeedOfRow(elements, r, now)>>]

\* a loop body that lets the exception out
Propagate(result) == result

\* "try: ... except Exception as e: print(...)"
TryExcept(result) ==
    IF result.raised THEN [raised |-> FALSE, feeds |-> << >>] ELSE result

\* "for row in feed_rows", from the k-th item on
RECURSIVE ForRows(_, _, _, _, _)
ForRows(elements, rows, k, now, feeds) ==
    IF k > Len(rows) THEN [raised |-> FALSE, feeds |-> feeds]
    ELSE LET result == TryExcept(ProcessRow(elements, rows[k], now))
         IN  IF result.raised THEN [raised |-> TRUE, feeds |-> << >>]
             ELSE ForRows(elements, rows, k + 1, now, feeds \o result.feeds)

extract_feed_data(page, now) ==
    IF ~page.main_table THEN [raised |-> FALSE, feeds |-> << >>]
    ELSE ForRows(page.elements, feed_rows(page.elements), 1, now, << >>)

(***************************************************************************)
(* The state.                                                              *)
(***************************************************************************)
VARIABLES
    clock,            \* datetime.now(timezone.utc)
    bucket,           \* the partition objects of the S3 bucket, by filename
    index,            \* the object liveatc_feeds_index.json
    runs,             \* lambda_handler invocations started so far
    pc,               \* where each invocation stands
    feeds,            \* process_urls' result
    filename,         \* save_to_s3's filename
    existing_data,    \* the mapping save_to_s3 loaded (before the merge)
    updated_data,     \* update_feed_data's result
    index_data,       \* update_index_file's partitions, updated and sorted
    loaded,           \* whether the partition / the index was read and parsed,
                      \* and whether update_index_file found no index object
    outcome,          \* how the invocation ended
    query,            \* the arguments of the aggregation request
    aggregated_data,  \* aggregate_feed_data's result
    index_before,     \* the index object when the invocation started
    first_static,     \* per feed name, the static_data first stored for it
    stale,            \* another run has put the partition since this run read it
    mdata,            \* SpecMerge: the mapping update_feed_data works on
    mfeeds,           \* SpecMerge: the records of the last call
    mprev,            \* SpecMerge: the mapping before the last call
    mcalls,           \* SpecMerge: calls made so far
    mrepeat,          \* SpecMerge: every call so far got the same records
    html,             \* SpecExtract: the page given to extract_feed_data
    extracted,        \* SpecExtract: the records extract_feed_data returned
    extract_pc,       \* SpecExtract: "idle", then "returned" or "raised"
    status_span_str,  \* SpecMetar: str(status_span) of a row
    metar_text,       \* SpecMetar: the row's metar_text
    metar_done,       \* SpecMetar: the row has been processed
    strong_tag,       \* SpecChannels: the strong tag of a row
    frequencies,      \* SpecChannels: the frequencies text of a row
    channel_types,    \* SpecChannels: the row's channel_types
    channels_done,    \* SpecChannels: the row has been processed
    all_feeds,        \* SpecPages: process_urls' all_feeds
    url,              \* SpecPages: the urls process_urls has fetched
    loaded_partitions,\* SpecPartial: partition_data of each relevant partition
    asked_names,      \* SpecPartial: the feed_names of the request
    partial_result,   \* SpecPartial: aggregate_feed_data's result
    partial_done      \* SpecPartial: the request has been answered

store_vars == <<clock, bucket, index, runs, first_static>>
proc_vars  == <<pc, feeds, filename, existing_data, updated_data, index_data,
                loaded, outcome, query, aggregated_data, index_before, stale>>
merge_vars == <<mdata, mfeeds, mprev, mcalls, mrepeat>>
extract_vars == <<html, extracted, extract_pc, status_span_str, metar_text, metar_done,
                  strong_tag, frequencies, channel_types, channels_done>>
fetch_vars == <<all_feeds, url>>
partial_vars == <<loaded_partitions, asked_names, partial_result, partial_done>>
vars == <<store_vars, proc_vars, merge_vars, extract_vars, fetch_vars, partial_vars>>

NoQuery == [start_date |-> "", end_date |-> "", feed_names |-> {}, unreadable |-> {}]
NoFile == << >>

InitStore ==
    /\ clock = 0
    /\ bucket = [f \in PartitionFiles |-> Missing]
    /\ index = Missing
    /\ runs = 0
    /\ first_static = [n \in FeedNames |-> << >>]

InitProcs ==
    /\ pc = [p \in Procs |-> "idle"]
    /\ feeds = [p \in Procs |-> << >>]
    /\ filename = [p \in Procs |-> NoFile]
    /\ existing_data = [p \in Procs |-> EmptyMapping]
    /\ updated_data = [p \in Procs |-> EmptyMapping]
    /\ index_data = [p \in Procs |-> << >>]
    /\ loaded = [p \in Procs |-> [partition |-> FALSE, index |-> FALSE, no_index |-> FALSE]]
    /\ outcome = [p \in Procs |-> "none"]
    /\ query = [p \in Procs |-> NoQuery]
    /\ aggregated_data = [p \in Procs |-> EmptyMapping]
    /\ index_before = [p \in Procs |-> Missing]
    /\ stale = [p \in Procs |-> FALSE]

InitMerge ==
    /\ mdata = EmptyMapping
    /\ mfeeds = << >>
    /\ mprev = EmptyMapping
    /\ mcalls = 0
    /\ mrepeat = TRUE

InitExtract ==
    /\ html = [main_table |-> FALSE, elements |-> << >>]
    /\ extracted = << >>
    /\ extract_pc = "idle"
    /\ status_span_str = << >>
    /\ metar_text = << >>
    /\ metar_done = FALSE
    /\ strong_tag = << >>
    /\ frequencies = << >>
    /\ channel_types = << >>
    /\ channels_done = FALSE

InitFetch ==
    /\ all_feeds = [p \in Procs |-> << >>]
    /\ url = [p \in Procs |-> 0]

InitPartial ==
    /\ loaded_partitions = << >>
    /\ asked_names = {}
    /\ partial_result = EmptyMapping
    /\ partial_done = FALSE

Init == InitStore /\ InitProcs /\ InitMerge /\ InitExtract /\ InitFetch /\ InitPartial

Returned(p) == pc[p] \in {"idle", "returned", "raised"}

(***************************************************************************)
(* The environment: time passes.                                           *)
(***************************************************************************)
Tick ==
    /\ clock < MaxTime
    /\ clock' = clock + 1
    /\ UNCHANGED <<bucket, index, runs, first_static, proc_vars, merge_vars, extract_vars, fetch_vars, partial_vars>>

(***************************************************************************)
(* lambda_handler, the collection flow: process_urls, then save_to_s3 and  *)
(* its update_index_file, one S3 request per step.                         *)
(***************************************************************************)
\* the locals of lambda_handler, save_to_s3 and update_index_file, gone when
\* the invocation returns or raises
NoLocals == [ feeds |-> << >>, filename |-> NoFile, existing_data |-> EmptyMapping,
              updated_data |-> EmptyMapping, index_data |-> << >>,
              loaded |-> [partition |-> FALSE, index |-> FALSE, no_index |-> FALSE] ]

Locals(p) == [ feeds |-> feeds[p], filename |-> filename[p],
               existing_data |-> existing_data[p], updated_data |-> updated_data[p],
               index_data |-> index_data[p], loaded |-> loaded[p] ]

\* what each run has read of its partition is out of date once another run
\* puts that partition ("stored" is reached by the put of the partition)
Overtaken(p, at) ==
    [q \in Procs |->
        IF q = p
        THEN stale[p] /\ at \in {"stored", "indexed"}
        ELSE stale[q] \/ (at = "stored" /\ pc[q] = "merged" /\ filename[q] = filename[p])]

\* the invocation of p goes on to `at` with the locals `l`
Step(p, at, l) ==
    /\ stale' = Overtaken(p, at)
    /\ pc' = [pc EXCEPT ![p] = at]
    /\ feeds' = [feeds EXCEPT ![p] = l.feeds]
    /\ filename' = [filename EXCEPT ![p] = l.filename]
    /\ existing_data' = [existing_data EXCEPT ![p] = l.existing_data]
    /\ updated_data' = [updated_data EXCEPT ![p] = l.updated_data]
    /\ index_data' = [index_data EXCEPT ![p] = l.index_data]
    /\ loaded' = [loaded EXCEPT ![p] = l.loaded]

\* lambda_handler returns its response
Return(p, how, l) ==
    /\ Step(p, "returned", l)
    /\ outcome' = [outcome EXCEPT ![p] = how]

SwallowPutError(p, how) ==
    /\ Step(p, IF how = "partition_put_raised" THEN "stored" ELSE "returned", Locals(p))
    /\ outcome' = [outcome EXCEPT ![p] = how]

\* an exception of put(): nothing in update_index_file, save_to_s3 or
\* lambda_handler catches it, so it ends the invocation
PutError(p, how) ==
    /\ Step(p, "raised", NoLocals)
    /\ outcome' = [outcome EXCEPT ![p] = how]

\* an exception that leaves lambda_handler from elsewhere
Raise(p, how) ==
    /\ Step(p, "raised", NoLocals)
    /\ outcome' = [outcome EXCEPT ![p] = how]

\* lambda_handler is entered
Invoke(p) ==
    /\ Returned(p)
    /\ runs < MaxRuns
    /\ runs' = runs + 1
    /\ Step(p, "started", NoLocals)
    /\ outcome' = [outcome EXCEPT ![p] = "none"]
    /\ query' = [query EXCEPT ![p] = NoQuery]
    /\ aggregated_data' = [aggregated_data EXCEPT ![p] = EmptyMapping]
    /\ index_before' = [index_before EXCEPT ![p] = index]
    /\ UNCHANGED <<clock, bucket, index, first_static, merge_vars, extract_vars, fetch_vars, partial_vars>>

\* feeds = asyncio.run(process_urls()); a failing fetch raises
ProcessUrls(p) ==
    /\ pc[p] = "started"
    /\ \E fetched \in BOOLEAN, rows \in SeqsUpTo(Rows, MaxFeeds) :
        IF fetched
        THEN /\ Step(p, "fetched", [Locals(p) EXCEPT !.feeds = FeedsOf(rows, clock)])
             /\ UNCHANGED outcome
        ELSE Raise(p, "fetch_raised")
    /\ UNCHANGED <<store_vars, query, aggregated_data, index_before, merge_vars, extract_vars, fetch_vars, partial_vars>>

\* save_to_s3 up to the put: the filename of today, the read of the
\* partition (or the empty mapping), update_feed_data
ReadPartition(p) ==
    /\ pc[p] = "fetched"
    /\ \E how \in ReadOutcomes :
        LET name == PartitionName(FormatDate(DayOf(clock)))
            got  == LoadOrEmpty(bucket[name], how, EmptyMapping)
        IN  IF got.raised
            THEN Raise(p, "read_raised")
            ELSE /\ Step(p, "merged",
                         [Locals(p) EXCEPT !.filename = name,
                                           !.loaded.partition = got.ok,
                                           !.existing_data = got.data,
                                           !.updated_data = update_feed_data(got.data, feeds[p])])
                 /\ UNCHANGED outcome
    /\ UNCHANGED <<store_vars, query, aggregated_data, index_before, merge_vars, extract_vars, fetch_vars, partial_vars>>

FirstStatic(seen, data) ==
    [n \in FeedNames |->
        IF seen[n] = << >> /\ n \in DOMAIN data
        THEN <<data[n].static_data>>
        ELSE seen[n]]

\* s3_object.put(Body=json.dumps(updated_data)): replaces the object, or raises
PutPartition(p) ==
    /\ pc[p] = "merged"
    /\ \E put_ok \in BOOLEAN :
        IF put_ok
        THEN /\ bucket' = ReplaceObject(bucket, filename[p], updated_data[p])
             /\ first_static' = FirstStatic(first_static, updated_data[p])
             /\ Step(p, "stored", Locals(p))
             /\ UNCHANGED outcome
        ELSE /\ PutError(p, "partition_put_raised")
             /\ UNCHANGED <<bucket, first_static>>
    /\ UNCHANGED <<clock, index, runs, query, aggregated_data, index_before, merge_vars, extract_vars, fetch_vars, partial_vars>>

\* update_index_file up to the put: the read of the index (or no
\* partitions), the descriptor of new_filename, the sort
ReadIndex(p) ==
    /\ pc[p] = "stored"
    /\ \E how \in ReadOutcomes :
        LET got == LoadOrEmpty(index, how, << >>)
        IN  IF got.raised
            THEN Raise(p, "read_raised")
            ELSE /\ Step(p, "indexed",
                         [Locals(p) EXCEPT !.loaded.index = got.ok,
                                           !.loaded.no_index = (index.kind = "missing"),
                                           !.index_data = UpdatedIndex(got.data, filename[p], clock)])
                 /\ UNCHANGED outcome
    /\ UNCHANGED <<store_vars, query, aggregated_data, index_before, merge_vars, extract_vars, fetch_vars, partial_vars>>

\* index_object.put(Body=json.dumps(index_data)), then lambda_handler
\* returns statusCode 200; a failing put raises
PutIndex(p) ==
    /\ pc[p] = "indexed"
    /\ \E put_ok \in BOOLEAN :
        IF put_ok
        THEN /\ index' = JsonObject(index_data[p])
             /\ Return(p, "success", NoLocals)
        ELSE /\ PutError(p, "index_put_raised")
             /\ UNCHANGED index
    /\ UNCHANGED <<clock, bucket, runs, first_static, query, aggregated_data,
                   index_before, merge_vars, extract_vars, fetch_vars, partial_vars>>

(***************************************************************************)
(* lambda_handler, the aggregation request (event['aggregate']).           *)
(***************************************************************************)
\* "" stands for an argument that is None or empty (both are falsy)
DateArgs == {""} \cup {FormatDate(d) : d \in Days}

Aggregate(p) ==
    /\ pc[p] = "started"
    /\ \E start_date \in DateArgs, end_date \in DateArgs,
          feed_names \in SUBSET FeedNames,
          how \in ReadOutcomes, unreadable \in SUBSET PartitionFiles :
        LET got == LoadOrEmpty(index, how, << >>)
        IN  /\ query' = [query EXCEPT ![p] =
                           [ start_date |-> start_date, end_date |-> end_date,
                             feed_names |-> feed_names, unreadable |-> unreadable ]]
            /\ aggregated_data' = [aggregated_data EXCEPT ![p] =
                                     IF got.raised THEN EmptyMapping
                                     ELSE aggregate_feed_data(got, bucket, unreadable,
                                              start_date, end_date, feed_names,
                                              DayOf(clock))]
            /\ IF got.raised
               THEN Raise(p, "read_raised")
               ELSE Return(p, "aggregated", [NoLocals EXCEPT !.loaded.index = got.ok])
    /\ UNCHANGED <<store_vars, index_before, merge_vars, extract_vars, fetch_vars, partial_vars>>

\* invocations of lambda_handler follow one another
Next ==
    \/ Tick
    \/ \E p \in {1} :
        \/ Invoke(p)
        \/ ProcessUrls(p)
        \/ ReadPartition(p)
        \/ PutPartition(p)
        \/ ReadIndex(p)
        \/ PutIndex(p)
        \/ Aggregate(p)

Spec == Init /\ [][Next]_vars

(***************************************************************************)
(* Two collection runs at once: nothing in save_to_s3 or update_index_file *)
(* keeps the steps of one invocation from falling between the read and the *)
(* put of another. The runs overlap within one instant of the clock: what  *)
(* is explored is the order of their S3 requests.                          *)
(***************************************************************************)
NextRace ==
    \/ \E p \in Procs :
        \/ Invoke(p)
        \/ ProcessUrls(p)
        \/ ReadPartition(p)
        \/ PutPartition(p)
        \/ ReadIndex(p)
        \/ PutIndex(p)

SpecRace == Init /\ [][NextRace]_vars

\* the same with time passing, so that the two runs may fall on two dates
NextRaceDates == Tick \/ NextRace

SpecRaceDates == Init /\ [][NextRaceDates]_vars

(***************************************************************************)
(* Aggregation requests over a store filled by collection runs. A          *)
(* collection run whose S3 requests all succeed is taken as one step:      *)
(* process_urls, save_to_s3 and its update_index_file. The runs come       *)
(* first, the requests after them.                                         *)
(***************************************************************************)
\* the time series entries the partitions hold
EntriesStored ==
    Cardinality(UNION {
        IF bucket[f].kind = "json"
        THEN UNION {{<<f, n, i>> : i \in 1..Len(bucket[f].data[n].time_series)}
                        : n \in DOMAIN bucket[f].data}
        ELSE {} : f \in PartitionFiles})

CollectRun ==
    /\ pc[1] = "idle"
    /\ EntriesStored < MaxEntries
    /\ \E rows \in SeqsUpTo(Rows, MaxFeeds) :
        LET name == PartitionName(FormatDate(DayOf(clock)))
            existing == LoadOrEmpty(bucket[name], "ok", EmptyMapping).data
            updated == update_feed_data(existing, FeedsOf(rows, clock))
            partitions == LoadOrEmpty(index, "ok", << >>).data
        IN  /\ bucket' = ReplaceObject(bucket, name, updated)
            /\ first_static' = FirstStatic(first_static, updated)
            /\ index' = JsonObject(UpdatedIndex(partitions, name, clock))
    /\ UNCHANGED <<clock, runs, proc_vars, merge_vars, extract_vars, fetch_vars, partial_vars>>

\* the aggregation request: it changes nothing in the store, so one request
\* per behaviour sees every store a later one would
InvokeOnce == runs = 0 /\ Invoke(1)

NextAgg ==
    \/ Tick
    \/ CollectRun
    \/ InvokeOnce
    \/ Aggregate(1)

SpecAgg == Init /\ [][NextAgg]_vars

(***************************************************************************)
(* aggregate_feed_data over partitions that parse as JSON but may hold     *)
(* feed entries lacking a key.                                             *)
(***************************************************************************)
\* an aggregation request whose selected partitions all parse as JSON
AggregateLoaded ==
    /\ ~partial_done
    /\ \E k \in 1..MaxSelected, feed_names \in SUBSET FeedNames :
        \E partitions \in {ps \in [1..k -> UNION {PartitionItems(i) : i \in 1..MaxSelected}] :
                              \A i \in 1..k : ps[i] \in PartitionItems(i)} :
            /\ loaded_partitions' = partitions
            /\ asked_names' = feed_names
            /\ partial_result' = SortAll(MergeLoaded(EmptyMapping, partitions, feed_names))
    /\ partial_done' = TRUE
    /\ UNCHANGED <<store_vars, proc_vars, merge_vars, extract_vars, fetch_vars>>

NextPartial == AggregateLoaded

SpecPartial == Init /\ [][NextPartial]_vars

(***************************************************************************)
(* The collection flow with process_urls page by page: each url is fetched *)
(* and extracted in turn, the feeds are added to all_feeds, and save_to_s3 *)
(* follows the last page. all_feeds and url keep the values of the last    *)
(* process_urls call.                                                      *)
(***************************************************************************)
\* a loop that keeps the feeds of the page just extracted only
LastPageOnly(all, page_feeds) == page_feeds

\* all_feeds.extend(feeds)
Extend(all, page_feeds) == all \o page_feeds

\* what a page may show: no feed, or one of the rows
PageRows == {<< >>} \cup {<<r>> : r \in Rows}

\* one turn of "for url in urls": fetch (which may raise), extract_feed_data,
\* extend; after the last url process_urls returns all_feeds
FetchPage(p) ==
    /\ pc[p] \in {"started", "fetching"}
    /\ \E fetched \in BOOLEAN, rows \in PageRows :
        LET done == IF pc[p] = "started" THEN 0 ELSE url[p]
            all  == Extend(IF pc[p] = "started" THEN << >> ELSE all_feeds[p],
                           FeedsOf(rows, clock))
        IN  IF fetched
            THEN /\ all_feeds' = [all_feeds EXCEPT ![p] = all]
                 /\ url' = [url EXCEPT ![p] = done + 1]
                 /\ IF done + 1 = MaxPages
                    THEN Step(p, "fetched", [Locals(p) EXCEPT !.feeds = all])
                    ELSE Step(p, "fetching", Locals(p))
                 /\ UNCHANGED outcome
            ELSE /\ all_feeds' = [all_feeds EXCEPT ![p] =
                                     IF pc[p] = "started" THEN << >> ELSE all_feeds[p]]
                 /\ url' = [url EXCEPT ![p] = done]
                 /\ Raise(p, "fetch_raised")
    /\ UNCHANGED <<store_vars, query, aggregated_data, index_before, merge_vars, extract_vars, partial_vars>>

\* time passes between the runs
TickBetweenRuns == Returned(1) /\ Tick

NextPages ==
    \/ TickBetweenRuns
    \/ \E p \in {1} :
        \/ Invoke(p)
        \/ FetchPage(p)
        \/ ReadPartition(p)
        \/ PutPartition(p)
        \/ ReadIndex(p)
        \/ PutIndex(p)

SpecPages == Init /\ [][NextPages]_vars

(***************************************************************************)
(* update_feed_data on its own: successive calls on one mapping, starting  *)
(* from the empty mapping, each with new records or with the records of    *)
(* the call before.                                                        *)
(***************************************************************************)
MergeCall(batch, again) ==
    /\ mcalls < MaxCalls
    /\ mprev' = mdata
    /\ mfeeds' = batch
    /\ mdata' = update_feed_data(mdata, batch)
    /\ mcalls' = mcalls + 1
    /\ mrepeat' = (mrepeat /\ (again \/ mcalls = 0))
    /\ UNCHANGED <<store_vars, proc_vars, extract_vars, fetch_vars, partial_vars>>

MergeNew == \E rows \in SeqsUpTo(Rows, MaxBatch) : MergeCall(FeedsOf(rows, mcalls), FALSE)

MergeAgain == mcalls > 0 /\ MergeCall(mfeeds, TRUE)

NextMerge == MergeNew \/ MergeAgain

SpecMerge == Init /\ [][NextMerge]_vars

(***************************************************************************)
(* The METAR of one row on its own: str(status_span) is given, MetarOf is   *)
(* applied to it once.                                                     *)
(***************************************************************************)
\* the text is lead + code + gap + time + body + tail
Leads == {<< >>, BrTag, AltLead, <<"<", "b", ">">>, <<"X">>}
Codes == {<<"K", "S", "E", "A">>, <<"K", "S", "E">>, <<"k", "s", "e", "a">>}
Gaps == {<<" ">>, <<"\t">>, << >>}
Times == {<<"0", "1", "0", "0", "0", "0", "Z">>, <<"0", "1", "0", "0", "0", "Z">>}
Bodies == {<< >>, <<" ", "w">>, <<" ", "w", " ", "Q", "1", "0", "1", "1">>, <<" ", "w", " ", "Q", "1", "0", "1", "1", " ", "x">>, <<"<", "b", ">", "w", "<", "/", "b", ">">>, <<" ", "A", "U", "T", "O">>, <<"\n", "w">>}
Tails == {<< >>, BrTag, <<" ", "A", "i", "r", "p", "o", "r", "t", " ", "I", "n", "f", "o">>, <<"F", "l", "i", "g", "h", "t", " ", "A", "c", "t", "i", "v", "i", "t", "y">>, <<"<", "b", "r", " ", "/", ">", "A", "i", "r", "p", "o", "r", "t", " ", "I", "n", "f", "o">>, <<" ", "<", "i", ">">>}

WeatherUnavailable == <<"W", "e", "a", "t", "h", "e", "r", " ", "I", "n", "f", "o", " ", "U", "n", "a", "v", "a", "i", "l", "a", "b", "l", "e">>

SpanStrs ==
    {lead \o code \o gap \o time \o body \o tail :
        lead \in Leads, code \in Codes, gap \in Gaps, time \in Times,
        body \in Bodies, tail \in Tails}
    \cup {WeatherUnavailable}

ExtractMetar ==
    /\ ~metar_done
    /\ \E s \in SpanStrs :
        /\ status_span_str' = s
        /\ metar_text' = MetarOf(s)
    /\ metar_done' = TRUE
    /\ UNCHANGED <<store_vars, proc_vars, merge_vars, strong_tag, frequencies,
                   channel_types, channels_done, html, extracted, extract_pc,
                   fetch_vars, partial_vars>>

NextMetar == ExtractMetar

SpecMetar == Init /\ [][NextMetar]_vars

(***************************************************************************)
(* The channel types of one row on its own: the strong tag and the         *)
(* frequencies text are given, ChannelTypesOf is applied to them.          *)
(***************************************************************************)
\* a frequencies text is what precedes a word, the word and what follows
Befores == {<< >>, <<"1", " ">>, <<"1", ":">>, <<"1", "/">>, <<"a">>}
Words == {<<"T", "o", "w", "e", "r">>, <<"T", "W", "R">>, <<"G", "r", "o", "u", "n", "d">>, <<"T", "o", "w">>}
Afters == {<< >>, <<" ", "1">>, <<":", " ", "1">>, <<":", "1">>, <<"/", "1">>, <<"s">>}

TowerAndGround == <<"T", "o", "w", "e", "r", ":", " ", "1", "1", "8", ".", "3", " ", "/", " ", "G", "r", "o", "u", "n", "d", ":", " ", "1", "2", "1", ".", "9">>

FrequencyTexts ==
    {before \o word \o after : before \in Befores, word \in Words, after \in Afters}
    \cup {TowerAndGround, << >>}

StrongTags == {NoStrong, Strong(<<"K", "S", "E", "A">>), Strong(<<"K", "S", "E", "A", " ", "T", "w", "r">>), Strong(<<"K", "S", "E", "A", " ", "G", "n", "d", "/", "C", "t", "r">>)}

ExtractChannels ==
    /\ ~channels_done
    /\ channels_done' = TRUE
    /\ \E strong \in StrongTags, text \in FrequencyTexts :
        /\ strong_tag' = strong
        /\ frequencies' = text
        /\ channel_types' = ChannelTypesOf(strong, text)
    /\ UNCHANGED <<store_vars, proc_vars, merge_vars, status_span_str, metar_text,
                   metar_done, html, extracted, extract_pc,
                   fetch_vars, partial_vars>>

NextChannels == ExtractChannels

SpecChannels == Init /\ [][NextChannels]_vars

(***************************************************************************)
(* extract_feed_data on one page: the page is given, the function is       *)
(* applied to it once, at the clock of the initial state.                  *)
(***************************************************************************)
\* a feed that is up: one marker cell, anchor, status, listeners, and the
\* frequencies in its second cell
UpRow ==
    [ tag |-> "tr", feed_cells |-> 1,
      icao_element |-> Some(<<"K", "S", "E", "A">>),
      nav_fonts |-> <<<<" ", "S", "e", "a", "t", "t", "l", "e", " ">>>>,
      status_span |-> Some([status_font |-> Some(<<"U", "P">>),
                            str |-> <<"<", "b", "r", " ", "/", ">", "K", "S", "E", "A", " ", "0", "1", "0", "0", "0", "0", "Z", " ", "w">>]),
      strong_tag |-> Some([text |-> <<"K", "S", "E", "A", " ", "T", "w", "r">>, a |-> Some(<<"K", "S", "E", "A", " ", "T", "w", "r">>)]),
      listener_fonts |-> <<<<"A", "i", "r", "p", "o", "r", "t", " ", "I", "n", "f", "o">>, <<"L", "i", "s", "t", "e", "n", "e", "r", "s", ":", " ", "5", " ", "o", "u", "t", " ", "o", "f", " ", "5", "0">>, <<"G", "n", "d", " ", "1">>>>,
      tds |-> 2,
      freq_fonts |-> <<<<"G", "n", "d", " ", "1">>>> ]

\* a feed that is down: no status span, "DOWN" in the strong tag, the name
\* in the nav font, no listeners line, one cell
DownRow ==
    [ tag |-> "tr", feed_cells |-> 1,
      icao_element |-> Some(<<"K", "B", "F", "I">>),
      nav_fonts |-> <<<<"K", "B", "F", "I", " ", "G", "n", "d">>>>,
      status_span |-> None,
      strong_tag |-> Some([text |-> <<"D", "O", "W", "N">>, a |-> None]),
      listener_fonts |-> << >>,
      tds |-> 1,
      freq_fonts |-> << >> ]

\* a row with two marker cells
TwoCellRow ==
    [ tag |-> "tr", feed_cells |-> 2,
      icao_element |-> Some(<<"K", "P", "A", "E">>),
      nav_fonts |-> << >>,
      status_span |-> Some([status_font |-> Some(<<" ", "D", "O", "W", "N">>),
                            str |-> WeatherUnavailable]),
      strong_tag |-> None,
      listener_fonts |-> <<<<"L", "i", "s", "t", "e", "n", "e", "r", "s", ":", " ", "0", " ", "o", "u", "t", " ", "o", "f", " ", "7">>>>,
      tds |-> 2,
      freq_fonts |-> << >> ]

\* a row with a marker cell and no anchor with a name
NoAnchorRow ==
    [ tag |-> "tr", feed_cells |-> 1,
      icao_element |-> None,
      nav_fonts |-> <<<<"x">>>>,
      status_span |-> None,
      strong_tag |-> None,
      listener_fonts |-> << >>,
      tds |-> 1,
      freq_fonts |-> << >> ]

\* a row without marker cell, holding a frequencies cell
PlainRow ==
    [ tag |-> "tr", feed_cells |-> 0,
      icao_element |-> None,
      nav_fonts |-> << >>,
      status_span |-> None,
      strong_tag |-> None,
      listener_fonts |-> <<<<"T", "w", "r", " ", "2">>>>,
      tds |-> 1,
      freq_fonts |-> <<<<"T", "w", "r", " ", "2">>>> ]

\* a marker cell that has no tr above it
StrayCell ==
    [ tag |-> "td", feed_cells |-> 1,
      icao_element |-> Some(<<"K", "X", "X", "X">>),
      nav_fonts |-> << >>,
      status_span |-> None,
      strong_tag |-> None,
      listener_fonts |-> << >>,
      tds |-> 1,
      freq_fonts |-> << >> ]

Elements == {UpRow, DownRow, TwoCellRow, NoAnchorRow, PlainRow, StrayCell}

Pages ==
    {[main_table |-> FALSE, elements |-> << >>]}
    \cup {[main_table |-> TRUE, elements |-> e] : e \in SeqsUpTo(Elements, MaxRowsOnPage)}

ExtractPage ==
    /\ extract_pc = "idle"
    /\ \E page \in Pages :
        LET result == extract_feed_data(page, clock)
        IN  /\ html' = page
            /\ extracted' = result.feeds
            /\ extract_pc' = IF result.raised THEN "raised" ELSE "returned"
    /\ UNCHANGED <<store_vars, proc_vars, merge_vars, status_span_str, metar_text,
                   metar_done, strong_tag, frequencies, channel_types, channels_done,
                   fetch_vars, partial_vars>>

NextExtract == ExtractPage

SpecExtract == Init /\ [][NextExtract]_vars

(***************************************************************************)
(* Properties of update_feed_data (under SpecMerge).                       *)
(***************************************************************************)
SeriesLen(data, n) == IF n \in DOMAIN data THEN Len(data[n].time_series) ELSE 0

\* C1: one update_feed_data call gives every feed_name that occurs in its
\* records exactly one more TimeSeriesEntry than the mapping held before,
\* however many of the records carry that feed_name.
C1_OneEntryPerFeedName ==
    \A n \in NamesIn(mfeeds) :
        /\ n \in DOMAIN mdata
        /\ SeriesLen(mdata, n) = SeriesLen(mprev, n) + 1

\* a call on a mapping that holds the feed already, with three records of
\* that feed_name
C1_Witness ==
    \E n \in DOMAIN mprev :
        /\ Cardinality({i \in 1..Len(mfeeds) : mfeeds[i].feed_name = n}) >= 3
        /\ SeriesLen(mdata, n) = 2

\* C2: a feed_name that is a key of the mapping keeps its static_data in
\* every update_feed_data call, whatever the new records carry.
C2_StaticDataKept ==
    \A n \in DOMAIN mprev :
        /\ n \in DOMAIN mdata
        /\ mdata[n].static_data = mprev[n].static_data

\* the mapping holds "KSEA Twr" with location "Seattle", the call brings a
\* record of it with location "SEA-TAC", and the location stays "Seattle"
C2_Witness ==
    /\ "KSEA Twr" \in DOMAIN mprev
    /\ mprev["KSEA Twr"].static_data.location = "Seattle"
    /\ mfeeds # << >>
    /\ mfeeds[1].feed_name = "KSEA Twr"
    /\ mfeeds[1].location = "SEA-TAC"
    /\ mdata["KSEA Twr"].static_data.location = "Seattle"
    /\ SeriesLen(mdata, "KSEA Twr") = 2

Doubled(s) ==
    \E k \in 1..Len(s) :
        /\ Len(s) = 2 * k
        /\ SubSeq(s, 1, k) = SubSeq(s, k + 1, 2 * k)

Stored(f) == bucket[f].kind = "json"

\* the feed names a partition object holds
FeedsStored(object) == IF object.kind = "json" THEN DOMAIN object.data ELSE {}

\* C4, as claimed: every partition that holds a feed_name holds, as its
\* static_data, the static_data first stored for that feed_name.
C4_StaticDataSetOnce ==
    \A f \in PartitionFiles :
        \A n \in FeedsStored(bucket[f]) :
            first_static[n] = <<bucket[f].data[n].static_data>>

\* C5, as claimed: no write of a partition drops a feed_name the partition
\* held or shortens a time_series.
C5_PartitionOnlyGrows ==
    [][ \A f \in PartitionFiles :
          (bucket[f].kind = "json" /\ bucket'[f].kind = "json") =>
              \A n \in DOMAIN bucket[f].data :
                  /\ n \in DOMAIN bucket'[f].data
                  /\ Len(bucket'[f].data[n].time_series)
                        >= Len(bucket[f].data[n].time_series) ]_vars

\* C6, as claimed: every TimeSeriesEntry of the partition of date D has a
\* timestamp that falls on D.
C6_EntriesOnPartitionDate ==
    \A f \in PartitionFiles :
        \A n \in FeedsStored(bucket[f]) :
            \A i \in 1..Len(bucket[f].data[n].time_series) :
                FormatDate(DayOf(bucket[f].data[n].time_series[i].timestamp))
                    = DateStrOf(f)

\* at most one descriptor per filename, newest date first
IndexInOrder(partitions) ==
    \A i, j \in 1..Len(partitions) :
        i < j => /\ partitions[i].filename # partitions[j].filename
                 /\ DateStrLeq(partitions[j].date, partitions[i].date)

\* C7: the index update_index_file persists, and the one it is about to
\* persist, hold at most one descriptor per filename, ordered by date
\* descending.
C7_IndexUniqueAndSorted ==
    /\ index.kind = "json" => IndexInOrder(index.data)
    /\ \A p \in Procs : pc[p] = "indexed" => IndexInOrder(index_data[p])

\* the index lists two partitions, the later one first
C7_Witness ==
    /\ index.kind = "json"
    /\ Len(index.data) = 2
    /\ index.data[1].date = "2024-01-02"
    /\ index.data[2].date = "2024-01-01"

\* C8, as claimed: a write to a date whose descriptor the index holds
\* changes at most that descriptor's last_modified; the descriptors of the
\* other filenames stay as they are.
C8_DescriptorKept ==
    [][ \A p \in Procs :
          (pc[p] = "indexed" /\ pc'[p] = "returned"
              /\ index.kind = "json" /\ index'.kind = "json") =>
              \A i \in 1..Len(index.data) :
                  \E j \in 1..Len(index'.data) :
                      IF index.data[i].filename = filename[p]
                      THEN /\ index'.data[j].filename = index.data[i].filename
                           /\ index'.data[j].date = index.data[i].date
                           /\ index'.data[j].created = index.data[i].created
                      ELSE index'.data[j] = index.data[i] ]_vars

\* the records of p's run are what the partition of filename[p] holds: one
\* series per feed_name of the run, of one entry, the entry of a record
RunAloneStored(p) ==
    /\ Stored(filename[p])
    /\ DOMAIN bucket[filename[p]].data = NamesIn(feeds[p])
    /\ \A n \in NamesIn(feeds[p]) :
        /\ Len(bucket[filename[p]].data[n].time_series) = 1
        /\ \E i \in 1..Len(feeds[p]) :
            /\ feeds[p][i].feed_name = n
            /\ bucket[filename[p]].data[n].time_series[1] = TimeSeriesEntry(feeds[p][i])
            /\ bucket[filename[p]].data[n].static_data = StaticData(feeds[p][i])

C10_PutFailureIsFatal ==
    \A p \in Procs :
        /\ outcome[p] \in {"partition_put_raised", "index_put_raised"} => pc[p] = "raised"
        /\ outcome[p] = "partition_put_raised" => index = index_before[p]
        /\ pc[p] = "returned" => outcome[p] \in {"success", "aggregated"}

\* the put of a partition failed in a run that found an index
C10_Witness ==
    /\ outcome[1] = "partition_put_raised"
    /\ pc[1] = "raised"
    /\ index.kind = "json"
    /\ index = index_before[1]

(***************************************************************************)
(* Properties of concurrent runs (under SpecRace).                         *)
(***************************************************************************)
\* p is about to put the partition it read before q put it: p and q started
\* from the same content of the partition of one date (both read it, or both
\* found none), q has put it since, and each has records to add
PutsOverNewer(p, q) ==
    /\ p # q
    /\ pc[p] = "merged"
    /\ stale[p]
    /\ pc[q] \in {"stored", "indexed"}
    /\ filename[p] = filename[q]
    /\ existing_data[p] = existing_data[q]
    /\ feeds[p] # << >>
    /\ feeds[q] # << >>

\* the entries the runs of p and q add to the series of n, one run after the
\* other
AddedBy(p, q, n) ==
    (IF n \in NamesIn(feeds[p]) THEN 1 ELSE 0) + (IF n \in NamesIn(feeds[q]) THEN 1 ELSE 0)

\* C11: nothing keeps one save_to_s3 run out of the window between the read
\* and the put of another. When a run q has put the partition while a run p
\* of the same date stood between its read and its put, the put of p
\* replaces the partition by the mapping of p alone, and every feed_name of
\* q's records is left with fewer entries than the two runs appended: the
\* entries of q are lost.
C11_InterleavedRunsLoseUpdate ==
    [][ \A p, q \in Procs :
          (PutsOverNewer(p, q) /\ pc'[p] = "stored") =>
              /\ bucket[filename[p]] = JsonObject(updated_data[q])
              /\ bucket'[filename[p]] = JsonObject(updated_data[p])
              /\ \A n \in NamesIn(feeds[q]) :
                    SeriesLen(bucket'[filename[p]].data, n)
                        < SeriesLen(existing_data[p], n) + AddedBy(p, q, n) ]_vars

\* both runs read, run 2 put its record of "KBFI Gnd", run 1 put its record
\* of "KSEA Twr": the partition holds no "KBFI Gnd"
C11_Witness ==
    /\ pc[1] = "stored"
    /\ pc[2] = "stored"
    /\ stale[1]
    /\ filename[1] = filename[2]
    /\ existing_data[1] = existing_data[2]
    /\ NamesIn(feeds[1]) = {"KSEA Twr"}
    /\ NamesIn(feeds[2]) = {"KBFI Gnd"}
    /\ "KSEA Twr" \in DOMAIN bucket[filename[1]].data
    /\ "KBFI Gnd" \notin DOMAIN bucket[filename[1]].data

(***************************************************************************)
(* Properties of aggregate_feed_data (under SpecAgg).                      *)
(***************************************************************************)
\* consecutive entries of every series are in timestamp order
InTimeOrder(data) ==
    \A n \in DOMAIN data :
        \A i \in 1..(Len(data[n].time_series) - 1) :
            data[n].time_series[i].timestamp <= data[n].time_series[i + 1].timestamp

\* the descriptors of an index in every order
Reorderings(partitions) ==
    {[i \in 1..Len(partitions) |-> partitions[f[i]]] :
        f \in {g \in [1..Len(partitions) -> 1..Len(partitions)] :
                  \A i, j \in 1..Len(partitions) : g[i] = g[j] => i = j}}

\* the index as a successful read returns it
ReadOk(partitions) == [ok |-> TRUE, raised |-> FALSE, data |-> partitions]

\* what the request of p gets on the store as it is, the index listing its
\* descriptors in the order `partitions`
AggregatedFrom(p, partitions, today) ==
    aggregate_feed_data(ReadOk(partitions), bucket, query[p].unreadable,
                        query[p].start_date, query[p].end_date,
                        query[p].feed_names, today)

\* C12: every time_series of a result of aggregate_feed_data is in timestamp
\* order, timestamp[i] <= timestamp[i+1]: in the result returned, and in the
\* result of the same request for every order in which the index may list
\* the partitions.
C12_AggregatedInTimeOrder ==
    \A p \in Procs :
        /\ InTimeOrder(aggregated_data[p])
        /\ index.kind = "json" =>
              \A partitions \in Reorderings(index.data), today \in Days :
                  InTimeOrder(AggregatedFrom(p, partitions, today))

\* a result with a series of two entries of different instants, taken from two
\* partitions that the index lists newest first: as concatenated the later
\* entry came first
C12_Witness ==
    /\ outcome[1] = "aggregated"
    /\ index.kind = "json"
    /\ Len(index.data) = 2
    /\ \E n \in DOMAIN aggregated_data[1] :
        /\ Len(aggregated_data[1][n].time_series) = 2
        /\ aggregated_data[1][n].time_series[1].timestamp
              < aggregated_data[1][n].time_series[2].timestamp
        /\ aggregated_data[1][n].time_series[1] = bucket[index.data[2].filename].data[n].time_series[1]
        /\ aggregated_data[1][n].time_series[2] = bucket[index.data[1].filename].data[n].time_series[1]

\* the entries of a series, as a set
EntriesOf(time_series) == {time_series[i] : i \in 1..Len(time_series)}

\* the bounds a request works with: an argument left out is the default
\* start date, or the day of the request
StartOf(p) == IF query[p].start_date = "" THEN DefaultStartDate ELSE query[p].start_date
EndOf(p, today) == IF query[p].end_date = "" THEN FormatDate(today) ELSE query[p].end_date

\* the indexed partitions the request of p can read whose date d satisfies
\* start <= d <= end
InRangeReadable(p, end) ==
    {index.data[i].filename : i \in
        {j \in 1..Len(index.data) :
            /\ DateStrLeq(StartOf(p), index.data[j].date)
            /\ DateStrLeq(index.data[j].date, end)
            /\ index.data[j].filename \notin query[p].unreadable
            /\ bucket[index.data[j].filename].kind = "json"}}

\* the feed names of a partition that pass the filter of the request
Passing(p, f) ==
    IF query[p].feed_names = {} THEN DOMAIN bucket[f].data
    ELSE DOMAIN bucket[f].data \cap query[p].feed_names

\* the result of p holds what the partitions of `files` hold and nothing else
ExactlyFrom(p, files) ==
    /\ DOMAIN aggregated_data[p] = UNION {Passing(p, f) : f \in files}
    /\ \A n \in DOMAIN aggregated_data[p] :
          EntriesOf(aggregated_data[p][n].time_series)
              = UNION {EntriesOf(bucket[f].data[n].time_series) :
                          f \in {g \in files : n \in Passing(p, g)}}

\* the request of p was answered from the index
Answered(p) == outcome[p] = "aggregated" /\ loaded[p].index /\ index.kind = "json"

\* C13: the result of aggregate_feed_data is made of the entries of exactly
\* the indexed partitions whose date d satisfies start_date <= d <= end_date,
\* both bounds included, that can be read: nothing of a partition outside the
\* range is in it, and every entry of a readable partition inside the range
\* is. A bound left out is 2000-01-01, or the day of the request.
C13_DateRangeInclusive ==
    \A p \in Procs :
        Answered(p) =>
            \E today \in 0..DayOf(clock) :
                ExactlyFrom(p, InRangeReadable(p, EndOf(p, today)))

\* the index lists 2024-01-01 and 2024-01-02, both holding "KSEA Twr"; the
\* request for start = end = 2024-01-02 returns the entries of 2024-01-02 only
C13_Witness ==
    /\ Answered(1)
    /\ Len(index.data) = 2
    /\ query[1].start_date = "2024-01-02"
    /\ query[1].end_date = "2024-01-02"
    /\ query[1].unreadable = {}
    /\ \A f \in PartitionFiles :
          bucket[f].kind = "json" /\ "KSEA Twr" \in DOMAIN bucket[f].data
    /\ "KSEA Twr" \in DOMAIN aggregated_data[1]
    /\ aggregated_data[1]["KSEA Twr"].time_series
          = bucket[PartitionName("2024-01-02")].data["KSEA Twr"].time_series

\* how often an entry occurs in a series
Occurrences(time_series, e) == Cardinality({i \in 1..Len(time_series) : time_series[i] = e})

\* the time_series of n in the partitions of `files` that hold n, one after
\* the other in the order of the index
RECURSIVE Concatenation(_, _, _)
Concatenation(partitions, files, n) ==
    IF partitions = << >> THEN << >>
    ELSE (IF Head(partitions).filename \in files
             /\ n \in DOMAIN bucket[Head(partitions).filename].data
          THEN bucket[Head(partitions).filename].data[n].time_series
          ELSE << >>)
         \o Concatenation(Tail(partitions), files, n)

\* one series is the other in another order
IsPermutation(s, t) ==
    /\ Len(s) = Len(t)
    /\ \A e \in EntriesOf(s) \cup EntriesOf(t) : Occurrences(s, e) = Occurrences(t, e)

\* C14: for every feed_name in the result, the time_series returned by
\* aggregate_feed_data is a permutation of the concatenation of the feed's
\* time_series over the selected readable partitions: every entry as often as
\* the partitions hold it, none lost, none duplicated.
C14_PermutationOfConcatenation ==
    \A p \in Procs :
        Answered(p) =>
            \E today \in 0..DayOf(clock) :
                LET files == InRangeReadable(p, EndOf(p, today))
                IN  /\ DOMAIN aggregated_data[p] = UNION {Passing(p, f) : f \in files}
                    /\ \A n \in DOMAIN aggregated_data[p] :
                          IsPermutation(aggregated_data[p][n].time_series,
                                        Concatenation(index.data, files, n))

\* "KSEA Twr" has one entry in each of two selected partitions, listeners 5 on
\* 2024-01-01 and 8 on 2024-01-02: the result has the two entries, 5 then 8
C14_Witness ==
    /\ Answered(1)
    /\ query[1].unreadable = {}
    /\ query[1].start_date = "2024-01-01"
    /\ query[1].end_date = "2024-01-02"
    /\ \A f \in PartitionFiles :
          /\ bucket[f].kind = "json"
          /\ "KSEA Twr" \in DOMAIN bucket[f].data
          /\ Len(bucket[f].data["KSEA Twr"].time_series) = 1
    /\ "KSEA Twr" \in DOMAIN aggregated_data[1]
    /\ Len(aggregated_data[1]["KSEA Twr"].time_series) = 2
    /\ aggregated_data[1]["KSEA Twr"].time_series[1].listeners = 5
    /\ aggregated_data[1]["KSEA Twr"].time_series[2].listeners = 8

\* the indexed partitions in the range of the request of p
InRange(p, end) ==
    {index.data[i].filename : i \in
        {j \in 1..Len(index.data) :
            /\ DateStrLeq(StartOf(p), index.data[j].date)
            /\ DateStrLeq(index.data[j].date, end)}}

\* every entry of the partition f that passes the filter is in the result of
\* p, as often as f holds it
Contributes(p, f) ==
    \A n \in Passing(p, f) :
        /\ n \in DOMAIN aggregated_data[p]
        /\ \A e \in EntriesOf(bucket[f].data[n].time_series) :
              Occurrences(aggregated_data[p][n].time_series, e)
                  >= Occurrences(bucket[f].data[n].time_series, e)

\* C15: a selected partition that aggregate_feed_data cannot read or parse is
\* skipped: no request ends in an exception, and every other selected
\* partition contributes all of its entries to the result.
C15_UnreadablePartitionSkipped ==
    \A p \in Procs :
        /\ pc[p] # "raised"
        /\ (outcome[p] = "aggregated" /\ loaded[p].index) =>
              \E today \in 0..DayOf(clock) :
                  \A f \in InRange(p, EndOf(p, today)) \ query[p].unreadable :
                      Contributes(p, f)

\* both partitions are selected and hold entries, the one of 2024-01-02
\* (first in the index) cannot be read: the result is what 2024-01-01 holds
C15_Witness ==
    /\ Answered(1)
    /\ pc[1] = "returned"
    /\ Len(index.data) = 2
    /\ query[1].start_date = ""
    /\ query[1].end_date = "2024-01-02"
    /\ query[1].feed_names = {}
    /\ query[1].unreadable = {PartitionName("2024-01-02")}
    /\ \A f \in PartitionFiles : bucket[f].kind = "json" /\ bucket[f].data # EmptyMapping
    /\ aggregated_data[1] = SortAll(bucket[PartitionName("2024-01-01")].data)

\* the positions in the index of the partitions of `files` that hold n and
\* let it pass the filter of the request of p
Holders(p, files, n) ==
    {j \in 1..Len(index.data) :
        index.data[j].filename \in files /\ n \in Passing(p, index.data[j].filename)}

\* C21: the static_data of every feed_name in the result of
\* aggregate_feed_data is the static_data of the first partition, in the
\* order of the index, among those processed that hold the feed; the
\* static_data of a partition processed later never replaces it.
C21_StaticDataOfFirstPartition ==
    \A p \in Procs :
        Answered(p) =>
            \E today \in 0..DayOf(clock) :
                LET files == InRangeReadable(p, EndOf(p, today))
                IN  /\ DOMAIN aggregated_data[p] = UNION {Passing(p, f) : f \in files}
                    /\ \A n \in DOMAIN aggregated_data[p] :
                          aggregated_data[p][n].static_data
                              = bucket[index.data[Min(Holders(p, files, n))].filename]
                                    .data[n].static_data

\* two selected partitions hold "KSEA Twr" with different static_data; the
\* result has the static_data of the one the index lists first and the
\* entries of both
C21_Witness ==
    /\ Answered(1)
    /\ Len(index.data) = 2
    /\ query[1].unreadable = {}
    /\ \A f \in PartitionFiles :
          bucket[f].kind = "json" /\ "KSEA Twr" \in DOMAIN bucket[f].data
    /\ bucket[index.data[1].filename].data["KSEA Twr"].static_data
          # bucket[index.data[2].filename].data["KSEA Twr"].static_data
    /\ "KSEA Twr" \in DOMAIN aggregated_data[1]
    /\ Len(aggregated_data[1]["KSEA Twr"].time_series) = 2
    /\ aggregated_data[1]["KSEA Twr"].static_data
          = bucket[index.data[1].filename].data["KSEA Twr"].static_data

(***************************************************************************)
(* Properties of extract_feed_data: the METAR (under SpecMetar).           *)
(***************************************************************************)
\* ^[A-Z]{4} \d{6}Z
HasMetarHead(text) ==
    /\ Len(text) >= 12
    /\ \A k \in 1..4 : text[k] \in UpperChars
    /\ text[5] = " "
    /\ \A k \in 6..11 : text[k] \in DigitChars
    /\ text[12] = "Z"

\* C17: the metar of a record is empty, or starts with four uppercase
\* letters, a space, six digits and Z, whichever pattern gave the text and
\* whether or not it was cut at 'Airport Info' / 'Flight Activity'.
C17_MetarEmptyOrHeaded ==
    metar_text = << >> \/ HasMetarHead(metar_text)

\* the code and the time stand a tab apart and the text runs into 'Airport
\* Info': only the basic pattern matches, and the metar is the text before
\* the label, with a space for the tab
C17_Witness ==
    /\ metar_done
    /\ StartsWith(status_span_str, <<"K", "S", "E", "A", "\t", "0", "1", "0", "0", "0", "0", "Z">>)
    /\ ~StrictPattern(status_span_str).found
    /\ ~AltPattern(status_span_str).found
    /\ ~GeneralPattern(status_span_str).found
    /\ BasicPattern(status_span_str).found
    /\ Contains(Candidate(status_span_str), AirportInfo)
    /\ metar_text = <<"K", "S", "E", "A", " ", "0", "1", "0", "0", "0", "0", "Z", " ", "w">>

(***************************************************************************)
(* Channel types from the frequencies text.                                *)
(***************************************************************************)
Delimiters == {" ", ":", "/"}

\* the keyword stands at position i of the text, bounded on each side by a
\* delimiter or by the start / the end of the text
BoundedAt(text, i, keyword) ==
    /\ At(text, i, keyword)
    /\ i = 1 \/ text[i - 1] \in Delimiters
    /\ i + Len(keyword) > Len(text) \/ text[i + Len(keyword)] \in Delimiters

\* some keyword of the mapping stands bounded in the frequencies text
KeywordBounded(mapping) ==
    \E k \in 1..Len(mapping.keywords), i \in 1..Len(frequencies) :
        BoundedAt(Lower(frequencies), i, Lower(mapping.keywords[k]))

\* C18: the frequencies text "Tower: 118.3 / Ground: 121.9" yields both
\* "Tower" and "Ground"; a channel type is in channel_types whenever one of
\* its keywords stands in the text bounded on each side by a space, a colon,
\* a slash or the start / end of the text, and a keyword that only is part of
\* a longer word adds no channel type.
C18_KeywordsMatchedAtBoundaries ==
    /\ channels_done /\ frequencies = TowerAndGround
        => InSeq("Tower", channel_types) /\ InSeq("Ground", channel_types)
    /\ \A i \in 1..Len(channel_type_mappings) :
        LET mapping == channel_type_mappings[i]
        IN  /\ KeywordBounded(mapping) => InSeq(mapping.channel_type, channel_types)
            /\ ( /\ ~KeywordBounded(mapping)
                 /\ ~InSeq(mapping.channel_type, TitleChannelTypes(strong_tag)) )
                => ~InSeq(mapping.channel_type, channel_types)

(***************************************************************************)
(* Properties of extract_feed_data.                                        *)
(***************************************************************************)
\* the rows that hold a marker cell and an identity anchor, in document order
MarkedRows(elements) ==
    SelectSeq([i \in 1..Len(elements) |-> i],
              LAMBDA i : /\ elements[i].tag = "tr"
                         /\ elements[i].feed_cells > 0
                         /\ elements[i].icao_element # None)

StatusValues == {<<"U", "P">>, <<"D", "O", "W", "N">>, <<"U", "N", "K", "N", "O", "W", "N">>}

\* C16: every row with a marker cell and an identity anchor yields exactly
\* one feed, with listeners >= 0, total_listeners >= 0 and a status among UP,
\* DOWN and UNKNOWN, rows with several marker cells and rows without status
\* text included.
C16_OneFeedPerMarkedRow ==
    extract_pc = "returned" =>
        LET rows == MarkedRows(html.elements)
        IN  /\ Len(extracted) = Len(rows)
            /\ \A k \in 1..Len(extracted) :
                /\ extracted[k].listeners >= 0
                /\ extracted[k].total_listeners >= 0
                /\ extracted[k].status \in StatusValues
            /\ \A k \in 1..Len(rows) :
                k <= Len(extracted) => extracted[k].icao = html.elements[rows[k]].icao_element[1]

\* the items of feed_rows whose processing neither raises nor stops at the
\* missing anchor, in document order
HealthyRows(elements) ==
    SelectSeq(feed_rows(elements),
              LAMBDA r : r # NoRow /\ elements[r].icao_element # None)

\* some item of feed_rows makes the loop body raise
HasFaultyRow(elements) == \E k \in 1..Len(feed_rows(elements)) : feed_rows(elements)[k] = NoRow

\* C19: an exception raised while one row is processed drops that row only:
\* extract_feed_data returns normally, and what it returns is the feed of
\* every other row that has an identity anchor, in document order, and
\* nothing for the row that raised.
C19_RowExceptionDropsOnlyThatRow ==
    extract_pc # "idle" =>
        /\ extract_pc = "returned"
        /\ html.main_table =>
            LET rows == HealthyRows(html.elements)
            IN  extracted = [k \in 1..Len(rows) |-> FeedOfRow(html.elements, rows[k], clock)]

\* a stray marker cell between the rows of two feeds: both feeds are returned
C19_Witness ==
    /\ extract_pc = "returned"
    /\ html.elements = <<UpRow, StrayCell, DownRow>>
    /\ HasFaultyRow(html.elements)
    /\ Len(extracted) = 2
    /\ extracted[1].icao = UpRow.icao_element[1]
    /\ extracted[2].icao = DownRow.icao_element[1]

(***************************************************************************)
(* Records that share a feed_name in one update_feed_data call.            *)
(***************************************************************************)
\* the first record of the call that carries the feed name
FirstRecord(batch, n) == batch[Min({i \in 1..Len(batch) : batch[i].feed_name = n})]

\* the records of the call without those whose feed_name an earlier one has
FirstRecords(batch) ==
    LET first == {i \in 1..Len(batch) : \A j \in 1..(i - 1) : batch[j].feed_name # batch[i].feed_name}
        RECURSIVE From(_)
        From(i) == IF i > Len(batch) THEN << >>
                   ELSE (IF i \in first THEN <<batch[i]>> ELSE << >>) \o From(i + 1)
    IN  From(1)

\* C20: when records of one update_feed_data call share a feed_name, the
\* entry appended to its time_series is built from the first of them, and so
\* is the static_data of a feed new to the mapping; the later ones leave no
\* trace: the mapping is the one the first records alone produce.
C20_FirstRecordWins ==
    /\ \A n \in NamesIn(mfeeds) :
        LET feed == FirstRecord(mfeeds, n)
        IN  /\ n \in DOMAIN mdata
            /\ mdata[n].time_series =
                   (IF n \in DOMAIN mprev THEN mprev[n].time_series ELSE << >>)
                       \o <<TimeSeriesEntry(feed)>>
            /\ n \notin DOMAIN mprev => mdata[n].static_data = StaticData(feed)
    /\ mdata = update_feed_data(mprev, FirstRecords(mfeeds))

\* a call on the empty mapping with two records of "KSEA Twr", the first
\* DOWN at "SEA-TAC", the second UP at "Seattle": the feed is stored with
\* location "SEA-TAC" and one DOWN entry
C20_Witness ==
    /\ mcalls = 1
    /\ Len(mfeeds) >= 2
    /\ mfeeds[1].feed_name = "KSEA Twr" /\ mfeeds[1].status = "DOWN"
    /\ mfeeds[2].feed_name = "KSEA Twr" /\ mfeeds[2].status = "UP"
    /\ mfeeds[1].location # mfeeds[2].location
    /\ mdata["KSEA Twr"].static_data.location = "SEA-TAC"
    /\ Len(mdata["KSEA Twr"].time_series) = 1
    /\ mdata["KSEA Twr"].time_series[1].status = "DOWN"

(***************************************************************************)
(* Properties of the collection run page by page (under SpecPages).        *)
(***************************************************************************)
Fetching(p) == pc[p] \in {"started", "fetching"}

\* all_feeds as the turn of the loop finds it
AllFeedsSoFar(p) == IF pc[p] = "started" THEN << >> ELSE all_feeds[p]

IsPrefix(s, t) == Len(s) <= Len(t) /\ SubSeq(t, 1, Len(s)) = s

\* C22: in a collection run the feeds of the pages are accumulated in page
\* order, and one update_feed_data call folds them all, so that a feed name
\* shown on several pages gets one entry; while the pages are fetched neither
\* the partition nor the index is written, and a run that fails in the fetch
\* of a page leaves both as they were when it started.
C22_OneFoldAfterLastPage ==
    [][ \A p \in Procs :
          /\ (Fetching(p) /\ pc'[p] \in {"fetching", "fetched"}) =>
                /\ IsPrefix(AllFeedsSoFar(p), all_feeds'[p])
                /\ url'[p] = (IF pc[p] = "started" THEN 0 ELSE url[p]) + 1
                /\ pc'[p] = "fetched" <=> url'[p] = MaxPages
                /\ pc'[p] = "fetched" => feeds'[p] = all_feeds'[p]
          /\ Fetching(p) => bucket' = bucket /\ index' = index
          /\ (pc[p] = "fetched" /\ pc'[p] = "merged") =>
                /\ updated_data'[p] = update_feed_data(existing_data'[p], all_feeds[p])
                /\ \A n \in NamesIn(all_feeds[p]) :
                      SeriesLen(updated_data'[p], n) = SeriesLen(existing_data'[p], n) + 1
          /\ (Fetching(p) /\ outcome'[p] = "fetch_raised") =>
                /\ bucket' = bucket
                /\ index' = index_before[p]
      ]_vars

\* the second run of a day has fetched its pages, two of which show
\* "KSEA Twr" with different contents, and has merged them: the partition
\* read held one entry of the feed, the mapping to be written holds two,
\* the second from the page fetched first; nothing has been written yet
C22_Witness ==
    /\ runs = 2
    /\ pc[1] = "merged"
    /\ url[1] = MaxPages
    /\ Len(all_feeds[1]) >= 2
    /\ all_feeds[1][1].feed_name = "KSEA Twr"
    /\ all_feeds[1][2].feed_name = "KSEA Twr"
    /\ all_feeds[1][1].status # all_feeds[1][2].status
    /\ loaded[1].partition
    /\ SeriesLen(existing_data[1], "KSEA Twr") = 1
    /\ SeriesLen(updated_data[1], "KSEA Twr") = 2
    /\ updated_data[1]["KSEA Twr"].time_series[2].status = all_feeds[1][1].status
    /\ bucket[filename[1]].data = existing_data[1]

(***************************************************************************)
(* The frame of update_feed_data (under SpecMerge).                        *)
(***************************************************************************)
\* C23: update_feed_data only appends: a feed_name of the mapping that no
\* record of the call mentions keeps its static_data and its time_series, no
\* feed_name is removed or added but those mentioned, and for a mentioned
\* feed_name the time_series it had is a prefix of the new one, which has
\* one entry more, the new entry, at its end.
C23_AppendOnly ==
    /\ DOMAIN mdata = DOMAIN mprev \cup NamesIn(mfeeds)
    /\ \A n \in DOMAIN mprev \ NamesIn(mfeeds) : mdata[n] = mprev[n]
    /\ \A n \in NamesIn(mfeeds) :
        LET before == IF n \in DOMAIN mprev THEN mprev[n].time_series ELSE << >>
            after  == mdata[n].time_series
        IN  /\ IsPrefix(before, after)
            /\ Len(after) = Len(before) + 1
            /\ after[Len(after)] = TimeSeriesEntry(FirstRecord(mfeeds, n))

\* the mapping holds "KSEA Twr" and "KBFI Gnd"; the second call brings records
\* of "KSEA Twr" only: "KBFI Gnd" is as it was, "KSEA Twr" has its old entry
\* first and the new one behind it
C23_Witness ==
    /\ mcalls = 2
    /\ DOMAIN mprev = {"KSEA Twr", "KBFI Gnd"}
    /\ NamesIn(mfeeds) = {"KSEA Twr"}
    /\ mdata["KBFI Gnd"] = mprev["KBFI Gnd"]
    /\ Len(mdata["KSEA Twr"].time_series) = 2
    /\ mdata["KSEA Twr"].time_series[1] = mprev["KSEA Twr"].time_series[1]
    /\ mdata["KSEA Twr"].time_series[2].timestamp # mprev["KSEA Twr"].time_series[1].timestamp

(***************************************************************************)
(* The index against the partitions written.                               *)
(***************************************************************************)
\* the filenames the index object lists
Listed(object) ==
    IF object.kind = "json"
    THEN {object.data[i].filename : i \in 1..Len(object.data)}
    ELSE {}

\* C24: a save_to_s3 run that completes leaves every partition file written
\* so far with a descriptor in the persisted index, if the runs before it did:
\* when the runs follow one another and each completes, every written
\* partition is listed, a run whose read of the index failed included.
C24_WrittenPartitionsListed ==
    [][ \A p \in Procs :
          ( /\ pc[p] = "indexed"
            /\ outcome'[p] = "success"
            /\ \A f \in PartitionFiles \ {filename[p]} : Stored(f) => f \in Listed(index) )
          => \A f \in PartitionFiles : Stored(f) => f \in Listed(index')
      ]_vars

\* C25: two save_to_s3 runs that write the partitions of different dates and
\* whose update_index_file steps interleave leave an index that lists both
\* partitions: when the index lists the partition the other run wrote and
\* this run, whose read of the index parsed it or found no index object,
\* puts its index and completes, the partitions of both dates are listed.
C25_BothDescriptorsKept ==
    [][ \A p, q \in Procs :
          ( /\ p # q
            /\ outcome[q] = "success"
            /\ pc[p] = "indexed"
            /\ loaded[p].index \/ loaded[p].no_index
            /\ \E f \in PartitionFiles \ {filename[p]} : Stored(f)
            /\ \A f \in PartitionFiles \ {filename[p]} : Stored(f) => f \in Listed(index)
            /\ outcome'[p] = "success" )
          => \A f \in PartitionFiles : Stored(f) => f \in Listed(index')
      ]_vars

\* the loop over relevant_partitions as C26 describes it: a partition whose
\* items raise part-way leaves aggregated_data as it was before the partition
RECURSIVE MergeWholePartitions(_, _, _)
MergeWholePartitions(before, partitions, feed_names) ==
    IF partitions = << >>
    THEN before
    ELSE MergeWholePartitions(
             WholePartitionOrNothing(before, MergeItems(before, Head(partitions), feed_names)),
             Tail(partitions), feed_names)

\* C26: a selected partition that parses as JSON and whose processing raises
\* part-way, at a feed entry without "static_data" or "time_series",
\* contributes nothing to the result: the result is what the partitions
\* processed without an exception give, the feeds iterated before the failing
\* entry left out as well.
C26_RaisingPartitionContributesNothing ==
    partial_done =>
        partial_result = SortAll(MergeWholePartitions(EmptyMapping, loaded_partitions, asked_names))

====
